---- MODULE Spec2Model ----
(***************************************************************************)
(* A model of the jaqoi QOI codec: the header framer, the chunk encoder    *)
(* (add_chunks), the end-marker framer and the decoder (decode,            *)
(* parse_metadata, parse_chunks), as state machines over byte vectors.     *)
(* Bytes are integers 0..255; u8 arithmetic is taken modulo 2^8 and u32    *)
(* arithmetic modulo 2^32.  An Option<Pixel> is a sequence of length <= 1. *)
(***************************************************************************)
EXTENDS Integers, Sequences, FiniteSets, TLC

VARIABLES
    pc,              \* position of the program
    panic,           \* "none", or what aborted the program: an assertion, an unwrap,
                     \* an arithmetic overflow, the allocator
    metadata,        \* ImgMetadata given to encode
    pixels,          \* the pixel buffer given to encode / add_chunks
    bytes,           \* the encoder's output buffer (raw_bytes), later decode's input
    add_chunks_result, \* "none", or the Result add_chunks returned: "Ok" / "Err"
    chunks,          \* history: one record per opcode pushed by add_chunks
    enc_log,         \* history: previous_pixel and the index write of every encoder step
    pos,             \* number of bytes pixel_iter has yielded
    index,           \* add_chunks: index
    previous_pixel,  \* add_chunks: previous_pixel
    run_count,       \* add_chunks: run_count
    pixel,           \* add_chunks: pixel of the last loop iteration
    operation,       \* add_chunks: operation of the last loop iteration
    iter,            \* decode: number of bytes the iterator has yielded
    d_metadata,      \* decode: metadata returned by parse_metadata (Option)
    total_pixels,    \* decode: total_pixels
    decoded,         \* decode: decoded
    pixels_seen,     \* parse_chunks: pixels_seen
    prev_pixel,      \* parse_chunks: prev_pixel
    d_index,         \* parse_chunks: index
    tag,             \* parse_chunks: tag of the last loop iteration
    d_operation,     \* parse_chunks: operation of the last loop iteration
    twin             \* the outcome of a second call compared with the first (Option)

vars == <<pc, panic, metadata, pixels, bytes, add_chunks_result, chunks, enc_log, pos, index,
          previous_pixel, run_count, pixel, operation, iter, d_metadata,
          total_pixels, decoded, pixels_seen, prev_pixel, d_index, tag,
          d_operation, twin>>

encVars == <<chunks, enc_log, pos, index, previous_pixel, run_count, pixel, operation>>
decVars == <<iter, d_metadata, total_pixels, decoded, pixels_seen, prev_pixel,
             d_index, tag, d_operation>>

(***************************************************************************)
(* Bounds of the model.                                                    *)
(***************************************************************************)
\* longest pixel sequence over the whole palette
MaxLen == 3
\* stray bytes appended to a pixel buffer (length-error inputs)
MaxExtra == 2

(***************************************************************************)
(* Machine arithmetic.                                                     *)
(***************************************************************************)
U8 == 256
U16 == 65536

wrapping_sub(x, y) == (x - y + U8) % U8
wrapping_add(x, y) == (x + y) % U8
shl8(x, n) == (x * (2 ^ n)) % U8
shr8(x, n) == x \div (2 ^ n)

\* A u32 is the pair <<high 16 bits, low 16 bits>>: the model checker's integers
\* end at 2^31 - 1.
u32_from(n) == << n \div U16, n % U16 >>
u32_shl8(x) == << (x[1] % U8) * U8 + (x[2] \div U8), (x[2] % U8) * U8 >>
u32_add(x, n) == << (x[1] + ((x[2] + n) \div U16)) % U16, (x[2] + n) % U16 >>
\* byte i (0 = least significant) of a u32
u32_limb(x, i) ==
    CASE i = 0 -> x[2] % U8
      [] i = 1 -> x[2] \div U8
      [] i = 2 -> x[1] % U8
      [] i = 3 -> x[1] \div U8
\* column k of the schoolbook product of x and y, and the carry into it
u32_column(x, y, k) ==
    LET I == { i \in 0..3 : k - i \in 0..3 }
        term[i \in 0..3] == IF i \in I THEN u32_limb(x, i) * u32_limb(y, k - i) ELSE 0
    IN term[0] + term[1] + term[2] + term[3]
RECURSIVE u32_carry(_, _, _)
u32_carry(x, y, k) ==
    IF k = 0 THEN 0
    ELSE (u32_column(x, y, k - 1) + u32_carry(x, y, k - 1)) \div U8
u32_digit(x, y, k) == (u32_column(x, y, k) + u32_carry(x, y, k)) % U8
\* variant: a product that needs more than 32 bits saturates
u32_mul_saturating(x, y) ==
    [value |-> IF \E k \in 4..7 : u32_digit(x, y, k) # 0
               THEN << U16 - 1, U16 - 1 >>
               ELSE << u32_digit(x, y, 3) * U8 + u32_digit(x, y, 2),
                       u32_digit(x, y, 1) * U8 + u32_digit(x, y, 0) >>,
     overflow |-> \E k \in 4..7 : u32_digit(x, y, k) # 0]

\* x * y: the low 32 bits, and whether the product needs more
u32_mul(x, y) ==
    [value |-> << u32_digit(x, y, 3) * U8 + u32_digit(x, y, 2),
                  u32_digit(x, y, 1) * U8 + u32_digit(x, y, 0) >>,
     overflow |-> \E k \in 4..7 : u32_digit(x, y, k) # 0]

\* x & mask for the masks the decoder uses, all of the form bits lo..hi
bits(x, lo, hi) == (x \div (2 ^ lo)) % (2 ^ (hi - lo + 1))

(***************************************************************************)
(* lib.rs: constants and types.                                            *)
(***************************************************************************)
QOI_OP_RGB == 254
QOI_OP_RGBA == 255
QOI_OP_INDEX == 0
QOI_OP_DIFF == 1
QOI_OP_LUMA == 2
QOI_OP_RUN == 3

Pixel(r, g, b, a) == [r |-> r, g |-> g, b |-> b, a |-> a]
None == <<>>
Some(x) == <<x>>
unwrap(o) == o[1]

\* An index ([Option<Pixel>; 64]) is a function from its occupied slots to their
\* pixels; every other slot of 0..63 holds None.
IndexSlots == 0..63
EmptyIndex == [i \in {} |-> Pixel(0, 0, 0, 0)]
index_get(idx, i) == IF i \in DOMAIN idx THEN Some(idx[i]) ELSE None
\* variant: a slot that is occupied keeps its pixel
index_set_keep_first(idx, i, p) ==
    [j \in (DOMAIN idx) \cup {i} |-> IF j \in DOMAIN idx THEN idx[j] ELSE p]

index_set(idx, i, p) == [j \in (DOMAIN idx) \cup {i} |-> IF j = i THEN p ELSE idx[j]]

(***************************************************************************)
(* encoder.rs: helpers.                                                    *)
(***************************************************************************)
\* variant: least significant byte first
to_le_bytes(n) ==
    << n[2] % U8, n[2] \div U8, n[1] % U8, n[1] \div U8 >>

to_be_bytes(n) ==
    << n[1] \div U8, n[1] % U8, n[2] \div U8, n[2] % U8 >>

\* variant: the colorspace byte is pushed before the channels byte
add_header_swapped(buf, md) ==
    buf \o <<113, 111, 105, 102>> \o to_be_bytes(md.width) \o to_be_bytes(md.height)
    \o (IF md.colorspace = "SrgbLinearAlpha" THEN <<0>> ELSE <<1>>)
    \o (IF md.channels = "RGB" THEN <<3>> ELSE <<4>>)

\* assert_eq!(bytes.len(), 0): add_header aborts on a buffer that is not empty
add_header_failure(buf) == IF Len(buf) # 0 THEN "add_header_assert" ELSE "none"

\* the buffer buf after add_header, when the assertion holds
add_header(buf, md) ==
    buf
    \o <<113, 111, 105, 102>>
    \o to_be_bytes(md.width)
    \o to_be_bytes(md.height)
    \o (IF md.channels = "RGB" THEN <<3>> ELSE <<4>>)
    \o (IF md.colorspace = "SrgbLinearAlpha" THEN <<0>> ELSE <<1>>)

add_end_marker == <<0, 0, 0, 0, 0, 0, 0, 1>>

tag_byte_ok(t, lower_bits) == t < 4 /\ lower_bits < 64
tag_byte(t, lower_bits) == shl8(t, 6) + lower_bits

\* the sum is taken in u32, which it never exceeds
\* variant: the products and the sum are taken in 8 bits, saturating at 255
calculate_index_saturating(p) ==
    LET sat(x) == IF x > 255 THEN 255 ELSE x
    IN sat(sat(sat(sat(p.r * 3) + sat(p.g * 5)) + sat(p.b * 7)) + sat(p.a * 11)) % 64

calculate_index(p) == (p.r * 3 + p.g * 5 + p.b * 7 + p.a * 11) % 64

diff_fields(curr, prev) ==
    [dr |-> wrapping_add(wrapping_sub(curr.r, prev.r), 2),
     dg |-> wrapping_add(wrapping_sub(curr.g, prev.g), 2),
     db |-> wrapping_add(wrapping_sub(curr.b, prev.b), 2)]

create_diff_ok(curr, prev) ==
    LET d == diff_fields(curr, prev)
    IN d.dr < 4 /\ d.dg < 4 /\ d.db < 4

create_diff(curr, prev) ==
    LET d == diff_fields(curr, prev)
        lower_bits == shl8(shl8(d.dr, 2) + d.dg, 2) + d.db
    IN tag_byte(QOI_OP_DIFF, lower_bits)

luma_fields(curr, prev) ==
    LET dr == wrapping_sub(curr.r, prev.r)
        dg == wrapping_sub(curr.g, prev.g)
        db == wrapping_sub(curr.b, prev.b)
    IN [dg |-> wrapping_add(dg, 32),
        dr_dg |-> wrapping_add(wrapping_sub(dr, dg), 8),
        db_dg |-> wrapping_add(wrapping_sub(db, dg), 8)]

create_diff_luma_ok(curr, prev) ==
    LET d == luma_fields(curr, prev)
    IN d.dg < 64 /\ d.dr_dg < 16 /\ d.db_dg < 16

create_diff_luma(curr, prev) ==
    LET d == luma_fields(curr, prev)
    IN << tag_byte(QOI_OP_LUMA, d.dg), shl8(d.dr_dg, 4) + d.db_dg >>

\* the last three tests of find_operation, for the variants below
delta_operation(prev, curr) ==
    IF create_diff_ok(curr, prev) THEN "QoiOpDiff"
    ELSE IF create_diff_luma_ok(curr, prev) THEN "QoiOpLuma"
    ELSE "QoiOpRgb"

\* variant: the index is consulted before the run test
find_operation_index_first(prev, curr, idx) ==
    IF prev.a # curr.a THEN "QoiOpRgba"
    ELSE IF index_get(idx, calculate_index(curr)) = Some(curr) THEN "QoiOpIndex"
    ELSE IF prev = curr THEN "QoiOpRun"
    ELSE delta_operation(prev, curr)

\* variant: the alpha is compared with 255, not with the previous pixel's
find_operation_alpha_opaque(prev, curr, idx) ==
    IF curr.a # 255 THEN "QoiOpRgba"
    ELSE IF prev = curr THEN "QoiOpRun"
    ELSE IF index_get(idx, calculate_index(curr)) = Some(curr) THEN "QoiOpIndex"
    ELSE delta_operation(prev, curr)

\* variant: the DIFF test admits a biased difference of 4
find_operation_diff_wide(prev, curr, idx) ==
    IF prev.a # curr.a THEN "QoiOpRgba"
    ELSE IF prev = curr THEN "QoiOpRun"
    ELSE IF index_get(idx, calculate_index(curr)) = Some(curr) THEN "QoiOpIndex"
    ELSE IF /\ diff_fields(curr, prev).dr < 5
            /\ diff_fields(curr, prev).dg < 5
            /\ diff_fields(curr, prev).db < 5 THEN "QoiOpDiff"
    ELSE IF create_diff_luma_ok(curr, prev) THEN "QoiOpLuma"
    ELSE "QoiOpRgb"

\* variant: INDEX as soon as the slot is occupied, whatever it holds
find_operation_slot_occupied(prev, curr, idx) ==
    IF prev.a # curr.a THEN "QoiOpRgba"
    ELSE IF prev = curr THEN "QoiOpRun"
    ELSE IF index_get(idx, calculate_index(curr)) # None THEN "QoiOpIndex"
    ELSE delta_operation(prev, curr)

\* variant: differences taken in a wider integer type, without wrapping
find_operation_unwrapped(prev, curr, idx) ==
    IF prev.a # curr.a THEN "QoiOpRgba"
    ELSE IF prev = curr THEN "QoiOpRun"
    ELSE IF index_get(idx, calculate_index(curr)) = Some(curr) THEN "QoiOpIndex"
    ELSE LET dr == curr.r - prev.r
             dg == curr.g - prev.g
             db == curr.b - prev.b
         IN IF dr \in -2..1 /\ dg \in -2..1 /\ db \in -2..1 THEN "QoiOpDiff"
            ELSE IF dg \in -32..31 /\ (dr - dg) \in -8..7 /\ (db - dg) \in -8..7
                 THEN "QoiOpLuma"
            ELSE "QoiOpRgb"

\* variant: the run test comes first and compares r, g and b only
find_operation_run_rgb(prev, curr, idx) ==
    IF prev.r = curr.r /\ prev.g = curr.g /\ prev.b = curr.b THEN "QoiOpRun"
    ELSE IF prev.a # curr.a THEN "QoiOpRgba"
    ELSE IF index_get(idx, calculate_index(curr)) = Some(curr) THEN "QoiOpIndex"
    ELSE delta_operation(prev, curr)

find_operation(prev, curr, idx) ==
    IF prev.a # curr.a THEN "QoiOpRgba"
    ELSE IF prev = curr THEN "QoiOpRun"
    ELSE IF index_get(idx, calculate_index(curr)) # None
            /\ unwrap(index_get(idx, calculate_index(curr))) = curr THEN "QoiOpIndex"
    ELSE LET dr == wrapping_sub(curr.r, prev.r)
             dg == wrapping_sub(curr.g, prev.g)
             db == wrapping_sub(curr.b, prev.b)
             dr_2 == wrapping_add(dr, 2)
             dg_2 == wrapping_add(dg, 2)
             db_2 == wrapping_add(db, 2)
             dr_dg_8 == wrapping_add(wrapping_sub(dr, dg), 8)
             db_dg_8 == wrapping_add(wrapping_sub(db, dg), 8)
             dg_32 == wrapping_add(dg, 32)
         IN IF dr_2 < 4 /\ dg_2 < 4 /\ db_2 < 4 THEN "QoiOpDiff"
            ELSE IF dg_32 < 64 /\ dr_dg_8 < 16 /\ db_dg_8 < 16 THEN "QoiOpLuma"
            ELSE "QoiOpRgb"

push_run_ok(run_length) == run_length > 0 /\ run_length < 63
\* variant: the length is stored without its bias of -1
push_run_unbiased(run_length) == << tag_byte(QOI_OP_RUN, run_length) >>

push_run(run_length) == << tag_byte(QOI_OP_RUN, run_length - 1) >>
\* variant: the blue byte is not pushed
push_rgb_short(p) == << QOI_OP_RGB, p.r, p.g >>

push_rgb(p) == << QOI_OP_RGB, p.r, p.g, p.b >>
push_rgba(p) == << QOI_OP_RGBA, p.r, p.g, p.b, p.a >>
push_index(p) == << tag_byte(QOI_OP_INDEX, calculate_index(p)) >>
push_diff(curr, prev) == << create_diff(curr, prev) >>
push_luma(curr, prev) == create_diff_luma(curr, prev)

(***************************************************************************)
(* encoder.rs: add_chunks, one loop iteration.                             *)
(***************************************************************************)
alpha_included(md) == md.channels = "RGBA"
\* variant: three values a pixel whatever the channels
expected_values_rgb_only(alpha) == 3

expected_values_per_pixel(alpha) == IF alpha THEN 4 ELSE 3

\* the Pixel built from the next values of pixel_iter
\* variant: a pixel without an alpha value is transparent
read_pixel_transparent(px, p, alpha) ==
    Pixel(px[p + 1], px[p + 2], px[p + 3], IF alpha THEN px[p + 4] ELSE 0)

read_pixel(px, p, alpha) ==
    Pixel(px[p + 1], px[p + 2], px[p + 3], IF alpha THEN px[p + 4] ELSE 255)

\* run_count >= 63 after the increment: a RUN of 62 is pushed, 62 subtracted
\* variant: the run is cut one repeat late
run_full_late(rc) == rc >= 64

run_full(rc) == rc >= 63
run_flush_length == 62
\* variant: the counter is cleared when the full run is pushed
run_carry_none(rc) == 0

\* run_count -= 62
run_carry(rc) == rc - run_flush_length

Chunk(op, data) == [op |-> op, data |-> data]

\* the assertion (if any) that aborts pushing operation op for pixel px
push_failure(op, px, prev) ==
    CASE op = "QoiOpIndex" ->
           IF tag_byte_ok(QOI_OP_INDEX, calculate_index(px)) THEN "none" ELSE "tag_byte"
      [] op = "QoiOpDiff" ->
           IF ~create_diff_ok(px, prev) THEN "create_diff"
           ELSE IF ~tag_byte_ok(QOI_OP_DIFF, create_diff(px, prev) % 64) THEN "tag_byte"
           ELSE "none"
      [] op = "QoiOpLuma" ->
           IF ~create_diff_luma_ok(px, prev) THEN "create_diff_luma"
           ELSE IF ~tag_byte_ok(QOI_OP_LUMA, luma_fields(px, prev).dg) THEN "tag_byte"
           ELSE "none"
      [] OTHER -> "none"

run_failure(run_length) ==
    IF ~push_run_ok(run_length) THEN "push_run"
    ELSE IF ~tag_byte_ok(QOI_OP_RUN, run_length - 1) THEN "tag_byte"
    ELSE "none"

push_operation(op, px, prev) ==
    CASE op = "QoiOpRgb" -> << Chunk(op, push_rgb(px)) >>
      [] op = "QoiOpRgba" -> << Chunk(op, push_rgba(px)) >>
      [] op = "QoiOpIndex" -> << Chunk(op, push_index(px)) >>
      [] op = "QoiOpDiff" -> << Chunk(op, push_diff(px, prev)) >>
      [] op = "QoiOpLuma" -> << Chunk(op, push_luma(px, prev)) >>
      [] OTHER -> << >>

\* one iteration of the loop of add_chunks once find_operation has returned op
add_chunks_apply(op, prev, idx, rc, px) ==
    LET flush == op # "QoiOpRun" /\ rc > 0
        rc1 == IF flush THEN 0 ELSE rc
        rc2 == IF op = "QoiOpRun" THEN rc1 + 1 ELSE rc1
        split == op = "QoiOpRun" /\ run_full(rc2)
        rc3 == IF split THEN run_carry(rc2) ELSE rc2
        failed ==
            IF flush /\ run_failure(rc) # "none" THEN run_failure(rc)
            ELSE IF push_failure(op, px, prev) # "none" THEN push_failure(op, px, prev)
            ELSE IF rc2 >= U8 THEN "overflow"
            ELSE IF split /\ run_failure(run_flush_length) # "none"
                 THEN run_failure(run_flush_length)
            ELSE "none"
        out == (IF flush THEN << Chunk("QoiOpRun", push_run(rc)) >> ELSE << >>)
               \o push_operation(op, px, prev)
               \o (IF split THEN << Chunk("QoiOpRun", push_run(run_flush_length)) >>
                   ELSE << >>)
    IN [panic |-> failed,
        operation |-> op,
        out |-> out,
        run_count |-> rc3,
        index |-> index_set(idx, calculate_index(px), px),
        previous_pixel |-> px]

add_chunks_step(prev, idx, rc, px) ==
    add_chunks_apply(find_operation(prev, px, idx), prev, idx, rc, px)

RECURSIVE Flatten(_)
Flatten(cs) == IF cs = << >> THEN << >> ELSE Head(cs).data \o Flatten(Tail(cs))

InitialPixel == Pixel(0, 0, 0, 255)

\* the loop of add_chunks from position p of the buffer, and the final flush:
\* the bytes pushed, or the assertion that fails
RECURSIVE add_chunks_from(_, _, _, _, _, _, _)
add_chunks_after(px, p, st, out, alpha) ==
    IF st.panic # "none"
    THEN [panic |-> st.panic, result |-> "none", out |-> out]
    ELSE add_chunks_from(px, p + expected_values_per_pixel(alpha), st.previous_pixel,
                         st.index, st.run_count, out \o Flatten(st.out), alpha)

add_chunks_from(px, p, prev, idx, rc, out, alpha) ==
    IF Len(px) - p >= expected_values_per_pixel(alpha)
    THEN add_chunks_after(px, p, add_chunks_step(prev, idx, rc, read_pixel(px, p, alpha)),
                          out, alpha)
    ELSE IF rc > 0 /\ run_failure(rc) # "none"
         THEN [panic |-> run_failure(rc), result |-> "none", out |-> out]
    ELSE [panic |-> "none", result |-> "Ok",
          out |-> IF rc > 0 THEN out \o push_run(rc) ELSE out]

\* add_chunks: what it appends to the buffer and the Result it returns
add_chunks(px, alpha) ==
    IF Len(px) % expected_values_per_pixel(alpha) # 0
    THEN [panic |-> "none", result |-> "Err", out |-> << >>]
    ELSE add_chunks_from(px, 0, InitialPixel, EmptyIndex, 0, << >>, alpha)

\* encode: the bytes returned, or the abort
encode(px, md) ==
    LET r == add_chunks(px, alpha_included(md))
    IN IF r.panic # "none" THEN [panic |-> r.panic, bytes |-> << >>]
       ELSE IF r.result = "Err" THEN [panic |-> "add_chunks_unwrap", bytes |-> << >>]
       ELSE [panic |-> "none", bytes |-> add_header(<< >>, md) \o r.out \o add_end_marker]

(***************************************************************************)
(* lib.rs encode: add_header, add_chunks(..).unwrap(), add_end_marker.     *)
(***************************************************************************)
\* raw_bytes = Vec::new(); add_header(&mut raw_bytes, &metadata)
EncodeHeader ==
    /\ pc = "encode"
    /\ \E raw_bytes \in {<< >>} :
          IF add_header_failure(raw_bytes) # "none"
          THEN /\ pc' = "panicked"
               /\ panic' = add_header_failure(raw_bytes)
               /\ UNCHANGED bytes
          ELSE /\ bytes' = add_header(raw_bytes, metadata)
               /\ pc' = "add_chunks"
               /\ UNCHANGED panic
    /\ UNCHANGED <<metadata, pixels, twin, add_chunks_result, encVars, decVars>>

\* add_chunks up to its loop: the length check and the initial registers
AddChunksEnter ==
    /\ pc = "add_chunks"
    /\ IF Len(pixels) % expected_values_per_pixel(alpha_included(metadata)) # 0
       THEN /\ add_chunks_result' = "Err"
            /\ pc' = "panicked"
            /\ panic' = "add_chunks_unwrap"
            /\ UNCHANGED <<index, previous_pixel, run_count, pos>>
       ELSE /\ index' = EmptyIndex
            /\ previous_pixel' = InitialPixel
            /\ run_count' = 0
            /\ pos' = 0
            /\ pc' = "add_chunks_loop"
            /\ UNCHANGED <<panic, add_chunks_result>>
    /\ UNCHANGED <<metadata, pixels, twin, bytes, chunks, enc_log, pixel, operation, decVars>>

\* one iteration of the while loop of add_chunks
EncodePixel ==
    /\ pc = "add_chunks_loop"
    /\ Len(pixels) - pos >= expected_values_per_pixel(alpha_included(metadata))
    /\ LET alpha == alpha_included(metadata)
           px == read_pixel(pixels, pos, alpha)
       IN \E st \in {add_chunks_step(previous_pixel, index, run_count, px)} :
          IF st.panic # "none"
          THEN /\ pc' = "panicked"
               /\ panic' = st.panic
               /\ UNCHANGED <<bytes, encVars>>
          ELSE /\ pos' = pos + expected_values_per_pixel(alpha)
               /\ pixel' = Some(px)
               /\ operation' = st.operation
               /\ chunks' = chunks \o st.out
               /\ bytes' = bytes \o Flatten(st.out)
               /\ run_count' = st.run_count
               /\ index' = st.index
               /\ previous_pixel' = st.previous_pixel
               /\ enc_log' = Append(enc_log, [prev |-> st.previous_pixel,
                                              slot |-> calculate_index(px),
                                              val |-> px])
               /\ UNCHANGED <<pc, panic>>
    /\ UNCHANGED <<metadata, pixels, twin, add_chunks_result, decVars>>

\* the loop has ended: the final flush, Ok(()), and encode's add_end_marker
AddChunksReturn ==
    /\ pc = "add_chunks_loop"
    /\ Len(pixels) - pos < expected_values_per_pixel(alpha_included(metadata))
    /\ IF run_count > 0 /\ run_failure(run_count) # "none"
       THEN /\ pc' = "panicked"
            /\ panic' = run_failure(run_count)
            /\ UNCHANGED <<bytes, chunks, add_chunks_result>>
       ELSE /\ chunks' = IF run_count > 0
                         THEN Append(chunks, Chunk("QoiOpRun", push_run(run_count)))
                         ELSE chunks
            /\ bytes' = IF run_count > 0 THEN bytes \o push_run(run_count) ELSE bytes
            /\ add_chunks_result' = "Ok"
            /\ pc' = "add_end_marker"
            /\ UNCHANGED panic
    /\ UNCHANGED <<metadata, pixels, twin, enc_log, pos, index, previous_pixel, run_count,
                   pixel, operation, decVars>>

AddEndMarker ==
    /\ pc = "add_end_marker"
    /\ bytes' = bytes \o add_end_marker
    /\ pc' = "decode"
    /\ UNCHANGED <<panic, metadata, pixels, twin, add_chunks_result, encVars, decVars>>

(***************************************************************************)
(* decoder.rs: helpers.  An iterator is the slice it walks (s) and the     *)
(* number of bytes it has yielded (it).                                    *)
(***************************************************************************)
\* variant: the loop over the zero bytes stops one byte early
verify_ending_six_zeros(v) ==
    /\ Len(v) >= 8
    /\ \A i \in 0..5 : v[Len(v) - 8 + i + 1] = 0
    /\ v[Len(v)] = 1

verify_ending(v) ==
    /\ Len(v) >= 8
    /\ \A i \in 0..6 : v[Len(v) - 8 + i + 1] = 0
    /\ v[Len(v)] = 1

parse_u32(s, it) ==
    LET n1 == u32_from(s[it + 1])
        n2 == u32_add(u32_shl8(n1), s[it + 2])
        n3 == u32_add(u32_shl8(n2), s[it + 3])
    IN u32_add(u32_shl8(n3), s[it + 4])

ImgMetadata(w, h, ch, cs) == [width |-> w, height |-> h, channels |-> ch, colorspace |-> cs]

\* variant: any channels byte other than 3 is taken as RGBA
parse_metadata_failure_lenient(s) ==
    IF Len(s) < 14 THEN "parse_metadata_len"
    ELSE IF SubSeq(s, 1, 4) # <<113, 111, 105, 102>> THEN "parse_metadata_magic"
    ELSE IF s[14] \notin {0, 1} THEN "parse_metadata_colorspace"
    ELSE "none"

\* "none", or the assertion of parse_metadata that fails on slice s
parse_metadata_failure(s) ==
    IF Len(s) < 14 THEN "parse_metadata_len"
    ELSE IF SubSeq(s, 1, 4) # <<113, 111, 105, 102>> THEN "parse_metadata_magic"
    ELSE IF s[13] \notin {3, 4} THEN "parse_metadata_channels"
    ELSE IF s[14] \notin {0, 1} THEN "parse_metadata_colorspace"
    ELSE "none"

\* the bytes parse_metadata has taken from the iterator when it aborts: none at
\* the length assertion, the 4 of take(4) at the magic assertion, those, the two
\* parse_u32 and the channels byte at the first match, the colorspace byte too
\* at the second
parse_metadata_taken(failure) ==
    CASE failure = "parse_metadata_len" -> 0
      [] failure = "parse_metadata_magic" -> 4
      [] failure = "parse_metadata_channels" -> 13
      [] OTHER -> 14

parse_metadata(s) ==
    ImgMetadata(parse_u32(s, 4), parse_u32(s, 8),
                IF s[13] = 3 THEN "RGB" ELSE "RGBA",
                IF s[14] = 0 THEN "SrgbLinearAlpha" ELSE "AllLinearAlpha")

\* variant: the two top bits are looked at before the full byte
parse_operation_prefix_first(t) ==
    CASE shr8(t, 6) = QOI_OP_INDEX -> "QoiOpIndex"
      [] shr8(t, 6) = QOI_OP_DIFF -> "QoiOpDiff"
      [] shr8(t, 6) = QOI_OP_LUMA -> "QoiOpLuma"
      [] shr8(t, 6) = QOI_OP_RUN -> "QoiOpRun"
      [] OTHER -> IF t = QOI_OP_RGB THEN "QoiOpRgb" ELSE "QoiOpRgba"

\* "panic" stands for the panic! of the innermost match
parse_operation(t) ==
    IF t = QOI_OP_RGB THEN "QoiOpRgb"
    ELSE IF t = QOI_OP_RGBA THEN "QoiOpRgba"
    ELSE CASE shr8(t, 6) = QOI_OP_INDEX -> "QoiOpIndex"
           [] shr8(t, 6) = QOI_OP_DIFF -> "QoiOpDiff"
           [] shr8(t, 6) = QOI_OP_LUMA -> "QoiOpLuma"
           [] shr8(t, 6) = QOI_OP_RUN -> "QoiOpRun"
           [] OTHER -> "panic"

\* the bytes pushed for one pixel
pixel_bytes(p, include_alpha) ==
    <<p.r, p.g, p.b>> \o (IF include_alpha THEN <<p.a>> ELSE << >>)

\* the result of one write_op_*: the pixel, the bytes pushed, the payload bytes
\* taken from the iterator, the pixels written; panic when an unwrap fails
OpResult(pn, p, out, used, n) ==
    [panic |-> pn, pixel |-> p, out |-> out, used |-> used, count |-> n]
\* an unwrap that fails after the iterator has yielded used bytes: next() has
\* handed out every byte that was left before it returns the None that aborts
OpPanic(pn, used) == OpResult(pn, InitialPixel, << >>, used, 0)

\* variant: the pixel is opaque instead of inheriting the previous alpha
write_op_rgb_opaque(s, it, alpha, include_alpha) ==
    IF Len(s) - it < 3 THEN OpPanic("iter_unwrap", Len(s) - it)
    ELSE LET p == Pixel(s[it + 1], s[it + 2], s[it + 3], 255)
         IN OpResult("none", p, pixel_bytes(p, include_alpha), 3, 1)

write_op_rgb(s, it, alpha, include_alpha) ==
    IF Len(s) - it < 3 THEN OpPanic("iter_unwrap", Len(s) - it)
    ELSE LET p == Pixel(s[it + 1], s[it + 2], s[it + 3], alpha)
         IN OpResult("none", p, pixel_bytes(p, include_alpha), 3, 1)

\* variant: without alpha in the output the pixel kept is opaque
write_op_rgba_drop_alpha(s, it, include_alpha) ==
    IF Len(s) - it < 4 THEN OpPanic("iter_unwrap", Len(s) - it)
    ELSE LET p == Pixel(s[it + 1], s[it + 2], s[it + 3],
                        IF include_alpha THEN s[it + 4] ELSE 255)
         IN OpResult("none", p, pixel_bytes(p, include_alpha), 4, 1)

write_op_rgba(s, it, include_alpha) ==
    IF Len(s) - it < 4 THEN OpPanic("iter_unwrap", Len(s) - it)
    ELSE LET p == Pixel(s[it + 1], s[it + 2], s[it + 3], s[it + 4])
         IN OpResult("none", p, pixel_bytes(p, include_alpha), 4, 1)

\* variant: an empty slot yields the zero pixel
write_op_index_or_default(t, idx, include_alpha) ==
    LET p == IF index_get(idx, t) = None THEN Pixel(0, 0, 0, 0)
             ELSE unwrap(index_get(idx, t))
    IN OpResult("none", p, pixel_bytes(p, include_alpha), 0, 1)

write_op_index(t, idx, include_alpha) ==
    IF index_get(idx, t) = None THEN OpPanic("index_unwrap", 0)
    ELSE LET p == unwrap(index_get(idx, t))
         IN OpResult("none", p, pixel_bytes(p, include_alpha), 0, 1)

\* variant: the bias of 2 is not taken off
write_op_diff_biased(t, prev, include_alpha) ==
    LET p == Pixel(wrapping_add(prev.r, bits(t, 4, 5)),
                   wrapping_add(prev.g, bits(t, 2, 3)),
                   wrapping_add(prev.b, bits(t, 0, 1)),
                   prev.a)
    IN OpResult("none", p, pixel_bytes(p, include_alpha), 0, 1)

write_op_diff(t, prev, include_alpha) ==
    LET dr == bits(t, 4, 5)
        dg == bits(t, 2, 3)
        db == bits(t, 0, 1)
        p == Pixel(wrapping_sub(wrapping_add(prev.r, dr), 2),
                   wrapping_sub(wrapping_add(prev.g, dg), 2),
                   wrapping_sub(wrapping_add(prev.b, db), 2),
                   prev.a)
    IN OpResult("none", p, pixel_bytes(p, include_alpha), 0, 1)

\* variant: dr and db are taken as they are stored, without adding dg
write_op_luma_no_green(t, s, it, prev, include_alpha) ==
    IF Len(s) - it < 1 THEN OpPanic("iter_unwrap", Len(s) - it)
    ELSE LET byte2 == s[it + 1]
             dg == wrapping_sub(bits(t, 0, 5), 32)
             dr == wrapping_sub(bits(byte2, 4, 7), 8)
             db == wrapping_sub(bits(byte2, 0, 3), 8)
             p == Pixel(wrapping_add(prev.r, dr), wrapping_add(prev.g, dg),
                        wrapping_add(prev.b, db), prev.a)
         IN OpResult("none", p, pixel_bytes(p, include_alpha), 1, 1)

write_op_luma(t, s, it, prev, include_alpha) ==
    IF Len(s) - it < 1 THEN OpPanic("iter_unwrap", Len(s) - it)
    ELSE LET byte2 == s[it + 1]
             dg == wrapping_sub(bits(t, 0, 5), 32)
             dr_dg == wrapping_sub(bits(byte2, 4, 7), 8)
             db_dg == wrapping_sub(bits(byte2, 0, 3), 8)
             dr == wrapping_add(dr_dg, dg)
             db == wrapping_add(db_dg, dg)
             p == Pixel(wrapping_add(prev.r, dr), wrapping_add(prev.g, dg),
                        wrapping_add(prev.b, db), prev.a)
         IN OpResult("none", p, pixel_bytes(p, include_alpha), 1, 1)

\* n copies of the sequence x, one after the other
Repeat(x, n) == [i \in 1..(n * Len(x)) |-> x[((i - 1) % Len(x)) + 1]]

\* variant: the length is the field, without the 1 of its bias
write_op_run_unbiased(t, prev, include_alpha) ==
    LET run_len == bits(t, 0, 5)
    IN OpResult("none", prev, Repeat(pixel_bytes(prev, include_alpha), run_len), 0, run_len)

write_op_run(t, prev, include_alpha) ==
    LET run_len == (bits(t, 0, 5) + 1) % U8
    IN OpResult("none", prev, Repeat(pixel_bytes(prev, include_alpha), run_len), 0, run_len)

\* variant: the zero pixel is not seeded
SeededIndex_initial_only ==
    index_set(EmptyIndex, calculate_index(InitialPixel), InitialPixel)

\* the index parse_chunks starts from
SeededIndex ==
    index_set(index_set(EmptyIndex, calculate_index(InitialPixel), InitialPixel),
              calculate_index(Pixel(0, 0, 0, 0)), Pixel(0, 0, 0, 0))

\* the match on the operation in the loop of parse_chunks
write_op(op, t, s, it, prev, idx, include_alpha) ==
    CASE op = "QoiOpRgb" -> write_op_rgb(s, it, prev.a, include_alpha)
      [] op = "QoiOpRgba" -> write_op_rgba(s, it, include_alpha)
      [] op = "QoiOpIndex" -> write_op_index(t, idx, include_alpha)
      [] op = "QoiOpDiff" -> write_op_diff(t, prev, include_alpha)
      [] op = "QoiOpLuma" -> write_op_luma(t, s, it, prev, include_alpha)
      [] op = "QoiOpRun" -> write_op_run(t, prev, include_alpha)
      [] OTHER -> OpPanic("parse_operation", 0)

\* variant: the iterator yields the tag again
parse_chunks_update_tag_kept(t, op, r, it, idx) ==
    [panic |-> r.panic,
     tag |-> t,
     operation |-> op,
     out |-> r.out,
     iter |-> it + r.used,
     count |-> r.count,
     index |-> index_set(idx, calculate_index(r.pixel), r.pixel),
     prev_pixel |-> r.pixel]

\* variant: the decoded pixel is not stored in the index
parse_chunks_update_index_stale(t, op, r, it, idx) ==
    [panic |-> r.panic,
     tag |-> t,
     operation |-> op,
     out |-> r.out,
     iter |-> it + 1 + r.used,
     count |-> r.count,
     index |-> idx,
     prev_pixel |-> r.pixel]

\* variant: a RUN counts as one pixel
parse_chunks_update_run_uncounted(t, op, r, it, idx) ==
    [panic |-> r.panic,
     tag |-> t,
     operation |-> op,
     out |-> r.out,
     iter |-> it + 1 + r.used,
     count |-> 1,
     index |-> index_set(idx, calculate_index(r.pixel), r.pixel),
     prev_pixel |-> r.pixel]

\* the end of the iteration: the index write, prev_pixel, pixels_seen
parse_chunks_update(t, op, r, it, idx) ==
    [panic |-> r.panic,
     tag |-> t,
     operation |-> op,
     out |-> r.out,
     iter |-> it + 1 + r.used,
     count |-> r.count,
     index |-> index_set(idx, calculate_index(r.pixel), r.pixel),
     prev_pixel |-> r.pixel]

parse_chunks_step(s, it, prev, idx, include_alpha) ==
    parse_chunks_update(s[it + 1], parse_operation(s[it + 1]),
                        write_op(parse_operation(s[it + 1]), s[it + 1], s, it + 1, prev, idx,
                                 include_alpha),
                        it, idx)

\* the loop of parse_chunks from iterator position it to the end of s, or to
\* the unwrap that fails; iter is the number of bytes the caller's iterator has
\* yielded at the return or at the abort: the tag of the opcode that aborted
\* and the payload bytes that were left are taken and not put back
RECURSIVE parse_chunks_from(_, _, _, _, _, _, _)
parse_chunks_after(s, st, prev, idx, seen, out, include_alpha) ==
    IF st.panic # "none"
    THEN [panic |-> st.panic, pixels_seen |-> seen, out |-> out, prev_pixel |-> prev,
          index |-> idx, iter |-> st.iter]
    ELSE parse_chunks_from(s, st.iter, st.prev_pixel, st.index, seen + st.count,
                           out \o st.out, include_alpha)

parse_chunks_from(s, it, prev, idx, seen, out, include_alpha) ==
    IF it >= Len(s)
    THEN [panic |-> "none", pixels_seen |-> seen, out |-> out, prev_pixel |-> prev,
          index |-> idx, iter |-> it]
    ELSE parse_chunks_after(s, parse_chunks_step(s, it, prev, idx, include_alpha),
                            prev, idx, seen, out, include_alpha)

\* parse_chunks on the iterator over s that has yielded its first it bytes
parse_chunks(s, it, include_alpha) ==
    parse_chunks_from(s, it, InitialPixel, SeededIndex, 0, << >>, include_alpha)

\* variant: the end marker is left on the slice
Body_with_marker(v) == v

\* the slice decode iterates over: the input without its last 8 bytes
Body(v) == SubSeq(v, 1, Len(v) - 8)

\* Vec::with_capacity(total_pixels * channels_per_pixel): the reservation is made
\* from the header alone, before any chunk is read, and the allocator ends the
\* process when it cannot make it.  A reservation for fewer than 2^16 pixels is
\* taken to succeed; a larger one succeeds or not, depending on the machine.
with_capacity_may_abort(total) == total[1] # 0

\* what decode returns or the abort, in a build with overflow checks (checked)
\* or without, on a machine that makes a large reservation (reserved) or not
DecodeResult(pn, md, out) == [panic |-> pn, metadata |-> md, decoded |-> out]

\* decode from total_pixels on: product is width * height, r what parse_chunks
\* returns if it is called
decode_chunks(md, product, r, checked, reserved) ==
    IF product.overflow /\ checked THEN DecodeResult("mul_overflow", None, << >>)
    ELSE IF with_capacity_may_abort(product.value) /\ ~reserved
         THEN DecodeResult("alloc_abort", None, << >>)
    ELSE IF product.value = u32_from(0) THEN DecodeResult("none", Some(md), << >>)
    ELSE IF r.panic # "none" THEN DecodeResult(r.panic, None, << >>)
    ELSE IF product.value # u32_from(r.pixels_seen)
         THEN DecodeResult("assert_total_pixels", None, << >>)
    ELSE DecodeResult("none", Some(md), r.out)

decode_body(v, md, checked, reserved) ==
    decode_chunks(md, u32_mul(md.width, md.height),
                  parse_chunks(v, 14, alpha_included(md)), checked, reserved)

decode(v, checked, reserved) ==
    IF ~verify_ending(v) THEN DecodeResult("verify_ending", None, << >>)
    ELSE IF parse_metadata_failure(Body(v)) # "none"
         THEN DecodeResult(parse_metadata_failure(Body(v)), None, << >>)
    ELSE decode_body(Body(v), parse_metadata(Body(v)), checked, reserved)

(***************************************************************************)
(* decoder.rs: decode.                                                     *)
(***************************************************************************)
VerifyEnding ==
    /\ pc = "decode"
    /\ IF verify_ending(bytes)
       THEN pc' = "parse_metadata" /\ iter' = 0 /\ UNCHANGED panic
       ELSE pc' = "panicked" /\ panic' = "verify_ending" /\ UNCHANGED iter
    /\ UNCHANGED <<metadata, pixels, twin, bytes, add_chunks_result, encVars, d_metadata,
                   total_pixels, decoded, pixels_seen, prev_pixel, d_index, tag,
                   d_operation>>

ParseMetadata ==
    /\ pc = "parse_metadata"
    /\ IF parse_metadata_failure(Body(bytes)) = "none"
       THEN /\ d_metadata' = Some(parse_metadata(Body(bytes)))
            /\ iter' = 14
            /\ pc' = "decode_total"
            /\ UNCHANGED panic
       ELSE /\ pc' = "panicked"
            /\ panic' = parse_metadata_failure(Body(bytes))
            /\ iter' = parse_metadata_taken(parse_metadata_failure(Body(bytes)))
            /\ UNCHANGED d_metadata
    /\ UNCHANGED <<metadata, pixels, twin, bytes, add_chunks_result, encVars, total_pixels,
                   decoded, pixels_seen, prev_pixel, d_index, tag, d_operation>>

\* total_pixels = width * height in u32: an overflow aborts a build with overflow
\* checks and wraps in a build without; then the reservation of the output, which
\* the allocator may refuse when it is large; then the branch on total_pixels > 0
DecodeTotal ==
    /\ pc = "decode_total"
    /\ LET md == unwrap(d_metadata)
           product == u32_mul(md.width, md.height)
       IN \/ /\ product.overflow
             /\ pc' = "panicked"
             /\ panic' = "mul_overflow"
             /\ UNCHANGED <<total_pixels, decoded, pixels_seen, prev_pixel, d_index>>
          \/ /\ with_capacity_may_abort(product.value)
             /\ pc' = "panicked"
             /\ panic' = "alloc_abort"
             /\ total_pixels' = product.value
             /\ UNCHANGED <<decoded, pixels_seen, prev_pixel, d_index>>
          \/ /\ total_pixels' = product.value
             /\ decoded' = << >>
             /\ IF product.value # u32_from(0)
                THEN /\ pixels_seen' = 0
                     /\ prev_pixel' = InitialPixel
                     /\ d_index' = SeededIndex
                     /\ pc' = "parse_chunks"
                ELSE /\ pc' = "decoded"
                     /\ UNCHANGED <<pixels_seen, prev_pixel, d_index>>
             /\ UNCHANGED panic
    /\ UNCHANGED <<metadata, pixels, twin, bytes, add_chunks_result, encVars, iter, d_metadata,
                   tag, d_operation>>

\* one iteration of the while loop of parse_chunks
ParseChunk ==
    /\ pc = "parse_chunks"
    /\ iter < Len(Body(bytes))
    /\ \E st \in {parse_chunks_step(Body(bytes), iter, prev_pixel, d_index,
                                     alpha_included(unwrap(d_metadata)))} :
          IF st.panic # "none"
          THEN /\ pc' = "panicked"
               /\ panic' = st.panic
               /\ iter' = st.iter
               /\ tag' = Some(st.tag)
               /\ d_operation' = st.operation
               /\ UNCHANGED <<decoded, pixels_seen, prev_pixel, d_index>>
          ELSE /\ iter' = st.iter
               /\ tag' = Some(st.tag)
               /\ d_operation' = st.operation
               /\ decoded' = decoded \o st.out
               /\ pixels_seen' = pixels_seen + st.count
               /\ d_index' = st.index
               /\ prev_pixel' = st.prev_pixel
               /\ UNCHANGED <<pc, panic>>
    /\ UNCHANGED <<metadata, pixels, twin, bytes, add_chunks_result, encVars, d_metadata,
                   total_pixels>>

\* the iterator is exhausted: parse_chunks returns pixels_seen, decode asserts it
ParseChunksReturn ==
    /\ pc = "parse_chunks"
    /\ iter >= Len(Body(bytes))
    /\ IF total_pixels = u32_from(pixels_seen)
       THEN pc' = "decoded" /\ UNCHANGED panic
       ELSE pc' = "panicked" /\ panic' = "assert_total_pixels"
    /\ UNCHANGED <<metadata, pixels, twin, bytes, add_chunks_result, encVars, decVars>>

(***************************************************************************)
(* Inputs of encode: pixel buffers over a palette that reaches every       *)
(* opcode, and buffers holding runs around the RUN limit.                  *)
(***************************************************************************)
Palette ==
    { Pixel(0, 0, 0, 255),      \* the initial previous pixel; slot 53
      Pixel(10, 20, 30, 255),   \* RGB from (0,0,0); slot 9
      Pixel(0, 4, 0, 255),      \* LUMA from (0,0,0); slot 9 too
      Pixel(0, 0, 0, 0),        \* another alpha; slot 0
      Pixel(255, 255, 254, 0),  \* DIFF from (0,0,0,0) across the 0/255 wrap
      Pixel(100, 50, 200, 0) }  \* RGB from the other pixels of alpha 0

\* the pixel buffer of a sequence of pixels, 4 or 3 values a pixel
FlattenPixels(ps, alpha) ==
    LET n == IF alpha THEN 4 ELSE 3
    IN [i \in 1..(n * Len(ps)) |->
            pixel_bytes(ps[((i - 1) \div n) + 1], alpha)[((i - 1) % n) + 1]]

PixelSeqs(n) == UNION { [1..k -> Palette] : k \in 0..n }

\* run lengths around one and two full RUN opcodes
RunLens == { run_flush_length, run_flush_length + 1,
             2 * run_flush_length, 2 * run_flush_length + 1 }

\* at most one pixel, a long run of it (of the initial pixel if there is none),
\* at most one pixel after
LongSeqs ==
    { pre \o Repeat(IF pre = << >> THEN << InitialPixel >> ELSE pre, n) \o post :
        pre \in PixelSeqs(1), n \in RunLens, post \in PixelSeqs(1) }

Colorspaces == {"SrgbLinearAlpha", "AllLinearAlpha"}
ChannelsSet == {"RGB", "RGBA"}

\* the width x height pairs of an image of n pixels, sides up to MaxLen
Shapes(n) == { wh \in (0..MaxLen) \X (0..MaxLen) : wh[1] * wh[2] = n }

\* buffers of whole pixels, under every metadata record of their size
ShortInputs ==
    { [pixels |-> FlattenPixels(t[1], t[2] = "RGBA"),
       metadata |-> ImgMetadata(u32_from(t[4][1]), u32_from(t[4][2]), t[2], t[3])] :
        t \in { u \in PixelSeqs(MaxLen) \X ChannelsSet \X Colorspaces
                      \X ((0..MaxLen) \X (0..MaxLen)) :
                  u[4] \in Shapes(Len(u[1])) } }

\* buffers with 1..MaxExtra stray bytes after the last whole pixel
StrayInputs ==
    { [pixels |-> FlattenPixels(ps, ch = "RGBA") \o Repeat(<<0>>, e),
       metadata |-> ImgMetadata(u32_from(Len(ps)), u32_from(1), ch, "SrgbLinearAlpha")] :
        ps \in PixelSeqs(MaxLen), e \in 1..MaxExtra, ch \in ChannelsSet }

LongInputs ==
    { [pixels |-> FlattenPixels(ps, ch = "RGBA"),
       metadata |-> ImgMetadata(u32_from(Len(ps)), u32_from(1), ch, "SrgbLinearAlpha")] :
        ps \in LongSeqs, ch \in ChannelsSet }

\* two pixels revisited: a, b, a, a (a pixel found in the index, then repeated)
RevisitInputs ==
    { [pixels |-> FlattenPixels(<<a, b, a, a>>, ch = "RGBA"),
       metadata |-> ImgMetadata(u32_from(2), u32_from(2), ch, "AllLinearAlpha")] :
        a \in Palette, b \in Palette, ch \in ChannelsSet }

\* channel differences at the edges of the DIFF and LUMA ranges: dg, and dr - dg
\* or db - dg
GreenDiffs == {-33, -32, -3, -2, 1, 2, 31, 32}
LumaDiffs == {-9, -8, -1, 0, 1, 7, 8}
DiffBases == { Pixel(0, 255, 0, 255), Pixel(128, 100, 250, 255) }

Shifted(p, dr, dg, db) ==
    Pixel((p.r + dr + U8) % U8, (p.g + dg + U8) % U8, (p.b + db + U8) % U8, p.a)

\* two 3-channel pixels a given difference apart
DiffInputs ==
    { [pixels |-> FlattenPixels(<<p, Shifted(p, dg + er, dg, dg + eb)>>, FALSE),
       metadata |-> ImgMetadata(u32_from(1), u32_from(2), "RGB", "SrgbLinearAlpha")] :
        p \in DiffBases, dg \in GreenDiffs, er \in LumaDiffs, eb \in LumaDiffs }

Inputs == ShortInputs \cup StrayInputs \cup LongInputs \cup RevisitInputs \cup DiffInputs

InitRest ==
    /\ panic = "none"
    /\ add_chunks_result = "none"
    /\ chunks = << >>
    /\ enc_log = << >>
    /\ pos = 0
    /\ run_count = 0
    /\ operation = "none"
    /\ iter = 0
    /\ d_metadata = None
    /\ total_pixels = u32_from(0)
    /\ decoded = << >>
    /\ pixels_seen = 0
    /\ prev_pixel = InitialPixel
    /\ d_index = EmptyIndex
    /\ tag = None
    /\ d_operation = "none"
    /\ twin = None

InitRegisters ==
    /\ index = EmptyIndex
    /\ previous_pixel = InitialPixel
    /\ pixel = None

Init ==
    /\ pc = "encode"
    /\ \E inp \in Inputs : pixels = inp.pixels /\ metadata = inp.metadata
    /\ bytes = << >>
    /\ InitRest
    /\ InitRegisters

Next ==
    \/ EncodeHeader
    \/ AddChunksEnter
    \/ EncodePixel
    \/ AddChunksReturn
    \/ AddEndMarker
    \/ VerifyEnding
    \/ ParseMetadata
    \/ DecodeTotal
    \/ ParseChunk
    \/ ParseChunksReturn

Spec == Init /\ [][Next]_vars

(***************************************************************************)
(* The pipeline on the inputs of Spec, and decode on what encode returns   *)
(* for an image of 2^32 pixels.  Such an image is a buffer of 12 GiB or    *)
(* more and its chunks, for pixels (0,0,0,255) throughout, are 69,273,666  *)
(* bytes 0xFD and one 0xC3 (2^32 = 62 * 69,273,666 + 4); the first one or  *)
(* two of them stand here for the chunk body, and the pixel buffer is not  *)
(* written out.                                                            *)
(***************************************************************************)
\* 65536 x 65536 and 2^31 x 2
HugeShapes ==
    { << <<1, 0>>, <<1, 0>> >>, << <<32768, 0>>, u32_from(2) >> }

HugeStreams ==
    { add_header(<< >>, ImgMetadata(wh[1], wh[2], ch, cs)) \o b
          \o <<0, 0, 0, 0, 0, 0, 0, 1>> :
        wh \in HugeShapes, ch \in ChannelsSet, cs \in Colorspaces,
        b \in { <<253>>, <<253, 253>> } }

InitTrip ==
    \/ Init
    \/ /\ pc = "decode"
       /\ bytes \in HugeStreams
       /\ metadata = parse_metadata(bytes)
       /\ pixels = << >>
       /\ InitRest
       /\ InitRegisters

SpecTrip == InitTrip /\ [][Next]_vars

(***************************************************************************)
(* find_operation on its own: a previous pixel, a current pixel a given    *)
(* difference away, and an index that is empty, holds the current pixel,   *)
(* or holds another pixel in the current pixel's slot.                     *)
(***************************************************************************)
OpPrevs == { Pixel(0, 255, 0, 40), Pixel(128, 100, 250, 255) }
OpGreenDiffs == {-128, -33, -32, -31, -3, -2, -1, 0, 1, 2, 30, 31, 32, 127}
OpLumaDiffs == {-9, -8, -7, -3, -2, -1, 0, 1, 2, 6, 7, 8}

\* another pixel in the same slot: 3 * 64 is 0 modulo 64
Collider(p) == Pixel((p.r + 64) % U8, p.g, p.b, p.a)

OpIndexes(prev, curr) ==
    { EmptyIndex,
      index_set(EmptyIndex, calculate_index(curr), curr),
      index_set(EmptyIndex, calculate_index(Collider(curr)), Collider(curr)),
      index_set(index_set(EmptyIndex, calculate_index(curr), curr),
                calculate_index(prev), prev) }

InitOp ==
    /\ pc = "find_operation"
    /\ \E p \in OpPrevs, dg \in OpGreenDiffs, er \in OpLumaDiffs, eb \in OpLumaDiffs,
          da \in {0, 1} :
          LET c == [Shifted(p, dg + er, dg, dg + eb) EXCEPT !.a = (p.a + da) % U8]
          IN /\ previous_pixel = p
             /\ pixel = Some(c)
             /\ index \in OpIndexes(p, c)
    /\ pixels = << >>
    /\ metadata = ImgMetadata(u32_from(0), u32_from(0), "RGBA", "SrgbLinearAlpha")
    /\ bytes = << >>
    /\ InitRest

FindOperation ==
    /\ pc = "find_operation"
    /\ operation' = find_operation(previous_pixel, unwrap(pixel), index)
    /\ pc' = "found"
    /\ UNCHANGED <<panic, metadata, pixels, twin, bytes, add_chunks_result, chunks, enc_log,
                   pos, index, previous_pixel, run_count, pixel, decVars>>

NextOp == FindOperation

SpecOp == InitOp /\ [][NextOp]_vars

(***************************************************************************)
(* The header framer on its own: add_header, then parse_metadata on the    *)
(* bytes it wrote.                                                         *)
(***************************************************************************)
\* 32-bit values: 0, 1, 255, 256, 65535, 65536, 2^24, 2^31, 0x01020304,
\* 0xBBCB52AF, 2^32 - 1
U32Samples ==
    { <<0, 0>>, <<0, 1>>, <<0, 255>>, <<0, 256>>, <<0, 65535>>, <<1, 0>>, <<256, 0>>,
      <<32768, 0>>, <<258, 772>>, <<48075, 21167>>, <<65535, 65535>> }

\* the buffer add_header is given: empty, or holding a byte already
HeaderBuffers == { << >>, <<9>> }

InitHeader ==
    /\ pc = "add_header"
    /\ \E w \in U32Samples, h \in U32Samples, ch \in ChannelsSet, cs \in Colorspaces :
          metadata = ImgMetadata(w, h, ch, cs)
    /\ bytes \in HeaderBuffers
    /\ pixels = << >>
    /\ InitRest
    /\ InitRegisters

AddHeader ==
    /\ pc = "add_header"
    /\ IF add_header_failure(bytes) # "none"
       THEN /\ pc' = "panicked"
            /\ panic' = add_header_failure(bytes)
            /\ UNCHANGED bytes
       ELSE /\ bytes' = add_header(bytes, metadata)
            /\ pc' = "header_written"
            /\ UNCHANGED panic
    /\ UNCHANGED <<metadata, pixels, twin, add_chunks_result, encVars, decVars>>

\* parse_metadata on an iterator over the header bytes
ParseHeader ==
    /\ pc = "header_written"
    /\ IF parse_metadata_failure(bytes) = "none"
       THEN /\ d_metadata' = Some(parse_metadata(bytes))
            /\ iter' = 14
            /\ pc' = "header_parsed"
            /\ UNCHANGED panic
       ELSE /\ pc' = "panicked"
            /\ panic' = parse_metadata_failure(bytes)
            /\ iter' = parse_metadata_taken(parse_metadata_failure(bytes))
            /\ UNCHANGED d_metadata
    /\ UNCHANGED <<metadata, pixels, twin, bytes, add_chunks_result, encVars, total_pixels,
                   decoded, pixels_seen, prev_pixel, d_index, tag, d_operation>>

NextHeader == AddHeader \/ ParseHeader

SpecHeader == InitHeader /\ [][NextHeader]_vars

(***************************************************************************)
(* decode on byte streams that no encoder need have produced: a header,    *)
(* a chunk body, an ending; each of them well formed or not.  The outputs  *)
(* of encode for a few pixel buffers are decoded next to them.             *)
(***************************************************************************)
\* most chunks in a body
MaxChunks == 2

EndMarker == <<0, 0, 0, 0, 0, 0, 0, 1>>

\* width and height: products 0, 0, 1, 2, 3, 4, 2^32 (wraps to 0), 2^32 + 2 (wraps to 2)
DecShapes ==
    { <<u32_from(0), u32_from(0)>>, <<u32_from(0), u32_from(2)>>,
      <<u32_from(1), u32_from(1)>>, <<u32_from(1), u32_from(2)>>,
      <<u32_from(3), u32_from(1)>>, <<u32_from(2), u32_from(2)>>,
      <<<<1, 0>>, <<1, 0>>>>, <<<<32768, 1>>, u32_from(2)>> }

DecHeaders ==
    { add_header(<< >>, ImgMetadata(wh[1], wh[2], ch, cs)) :
        wh \in DecShapes, ch \in ChannelsSet, cs \in Colorspaces }

\* whole chunks: RGB, RGBA, INDEX of slots 53 and 0 (seeded), 9 (the slot of
\* (10,20,30,255)) and 5, DIFF of -2 -2 -2, LUMA of -32 -8 +7, RUN of 1 and 2
DecChunks ==
    { <<254, 10, 20, 30>>, <<255, 10, 20, 30, 7>>, <<53>>, <<0>>, <<9>>, <<5>>,
      <<64>>, <<128, 15>>, <<192>>, <<193>> }

\* chunks whose payload is cut short, the bytes left looking like the end marker's
DecTruncated ==
    { <<254>>, <<254, 0>>, <<254, 0, 0>>, <<255>>, <<255, 0, 0, 0>>, <<128>> }

RECURSIVE ChunkSeqs(_)
ChunkSeqs(n) ==
    IF n = 0 THEN { << >> }
    ELSE { << >> } \cup { c \o r : c \in DecChunks, r \in ChunkSeqs(n - 1) }

DecBodies ==
    ChunkSeqs(MaxChunks) \cup { b \o t : b \in ChunkSeqs(MaxChunks - 1), t \in DecTruncated }

\* headers with one byte wrong, and headers cut short
BadHeaders ==
    LET h == add_header(<< >>, ImgMetadata(u32_from(1), u32_from(1), "RGBA",
                                           "AllLinearAlpha"))
    IN { [h EXCEPT ![i] = 0] : i \in {1, 4, 13, 14} }
       \cup { [h EXCEPT ![13] = c] : c \in {2, 5, 255} }
       \cup { [h EXCEPT ![14] = c] : c \in {2, 255} }
       \cup { [h EXCEPT ![1] = 81] }
       \cup { SubSeq(h, 1, n) : n \in 0..13 }

\* endings that are not the marker, and inputs shorter than the marker
BadEndings ==
    { <<0, 0, 0, 0, 0, 0, 0, 0>>, <<0, 0, 0, 0, 0, 0, 0, 2>>, <<1, 0, 0, 0, 0, 0, 0, 1>>,
      <<0, 0, 0, 1, 0, 0, 0, 1>>, <<0, 0, 0, 0, 0, 0, 1, 1>>, << >> }
    \cup { SubSeq(EndMarker, k, 8) : k \in 2..8 }

\* headers of 65535 x 65535 and of (2^32 - 1) x 1 pixels, whose products fit 32
\* bits and ask for a reservation of gigabytes, before no chunk or one
LargeShapes ==
    { <<u32_from(65535), u32_from(65535)>>, <<<<65535, 65535>>, u32_from(1)>> }

LargeStreams ==
    { add_header(<< >>, ImgMetadata(wh[1], wh[2], ch, cs)) \o b \o EndMarker :
        wh \in LargeShapes, ch \in ChannelsSet, cs \in Colorspaces,
        b \in { << >>, <<254, 1, 2, 3>> } }

DecStreams ==
    { h \o b \o EndMarker : h \in DecHeaders, b \in DecBodies }
    \cup LargeStreams
    \cup { h \o b \o EndMarker : h \in BadHeaders, b \in { << >>, <<254, 10, 20, 30>> } }
    \cup { h \o b \o e : h \in { add_header(<< >>, ImgMetadata(u32_from(1), u32_from(1), "RGB",
                                                        "SrgbLinearAlpha")) },
                         b \in { << >>, <<254, 10, 20, 30>> }, e \in BadEndings }
    \cup BadEndings

InitDec ==
    /\ \/ /\ pc = "decode"
          /\ bytes \in DecStreams
          /\ pixels = << >>
          /\ metadata = ImgMetadata(u32_from(0), u32_from(0), "RGB", "SrgbLinearAlpha")
       \/ /\ pc = "encode"
          /\ bytes = << >>
          /\ \E inp \in RevisitInputs : pixels = inp.pixels /\ metadata = inp.metadata
    /\ panic = "none"
    /\ add_chunks_result = "none"
    /\ chunks = << >>
    /\ enc_log = << >>
    /\ pos = 0
    /\ run_count = 0
    /\ operation = "none"
    /\ iter = 0
    /\ d_metadata = None
    /\ total_pixels = u32_from(0)
    /\ decoded = << >>
    /\ pixels_seen = 0
    /\ prev_pixel = InitialPixel
    /\ d_index = EmptyIndex
    /\ tag = None
    /\ d_operation = "none"
    /\ twin = None
    /\ InitRegisters

SpecDec == InitDec /\ [][Next]_vars

(***************************************************************************)
(* parse_operation on its own, on every byte.                              *)
(***************************************************************************)
InitTag ==
    /\ pc = "parse_operation"
    /\ tag \in { Some(t) : t \in 0..(U8 - 1) }
    /\ pixels = << >>
    /\ metadata = ImgMetadata(u32_from(0), u32_from(0), "RGB", "SrgbLinearAlpha")
    /\ panic = "none"
    /\ bytes = << >>
    /\ add_chunks_result = "none"
    /\ chunks = << >>
    /\ enc_log = << >>
    /\ pos = 0
    /\ run_count = 0
    /\ operation = "none"
    /\ iter = 0
    /\ d_metadata = None
    /\ total_pixels = u32_from(0)
    /\ decoded = << >>
    /\ pixels_seen = 0
    /\ prev_pixel = InitialPixel
    /\ d_index = EmptyIndex
    /\ d_operation = "none"
    /\ twin = None
    /\ InitRegisters

ParseOperation ==
    /\ pc = "parse_operation"
    /\ d_operation' = parse_operation(unwrap(tag))
    /\ pc' = "parsed"
    /\ UNCHANGED <<panic, metadata, pixels, twin, bytes, add_chunks_result, encVars, iter,
                   d_metadata, total_pixels, decoded, pixels_seen, prev_pixel, d_index,
                   tag>>

NextTagStep == ParseOperation

SpecTag == InitTag /\ [][NextTagStep]_vars

(***************************************************************************)
(* calculate_index on its own: the index write of the encoder and the one  *)
(* of the decoder, for one pixel.                                          *)
(***************************************************************************)
IndexSamples == {0, 1, 5, 63, 64, 85, 86, 107, 128, 203, 251, 255}

InitIndex ==
    /\ pc = "calculate_index"
    /\ pixel \in { Some(Pixel(r, g, b, a)) :
                      r \in IndexSamples, g \in IndexSamples, b \in IndexSamples,
                      a \in IndexSamples }
    /\ index = EmptyIndex
    /\ previous_pixel = InitialPixel
    /\ pixels = << >>
    /\ metadata = ImgMetadata(u32_from(0), u32_from(0), "RGBA", "SrgbLinearAlpha")
    /\ bytes = << >>
    /\ InitRest

\* index[calculate_index(&pixel)] = Some(pixel) in add_chunks and in parse_chunks
WriteIndex ==
    /\ pc = "calculate_index"
    /\ index' = index_set(index, calculate_index(unwrap(pixel)), unwrap(pixel))
    /\ d_index' = index_set(d_index, calculate_index(unwrap(pixel)), unwrap(pixel))
    /\ pc' = "indexed"
    /\ UNCHANGED <<panic, metadata, pixels, twin, bytes, add_chunks_result, chunks, enc_log,
                   pos, previous_pixel, run_count, pixel, operation, iter, d_metadata,
                   total_pixels, decoded, pixels_seen, prev_pixel, tag, d_operation>>

NextIndex == WriteIndex

SpecIndex == InitIndex /\ [][NextIndex]_vars

(***************************************************************************)
(* Two calls side by side: encode under either colorspace, decode of two   *)
(* streams that differ in the colorspace byte, parse_chunks with and       *)
(* without alpha in the output.  The first call's outcome is kept in the   *)
(* decoder's variables, the second's in twin.                              *)
(***************************************************************************)
TwinRecord(v, pn, md, out, seen, prev, idx) ==
    [bytes |-> v, panic |-> pn, metadata |-> md, decoded |-> out, pixels_seen |-> seen,
     prev_pixel |-> prev, index |-> idx]

TwinOf(v) == TwinRecord(v, "none", None, << >>, 0, InitialPixel, EmptyIndex)

OtherColorspace(md) ==
    [md EXCEPT !.colorspace = IF @ = "SrgbLinearAlpha" THEN "AllLinearAlpha"
                               ELSE "SrgbLinearAlpha"]

\* the stream with the other colorspace byte
FlipColorspace(v) == [v EXCEPT ![14] = 1 - @]

\* width and height of the streams decoded twice: products 0, 2 and 2^32 + 2
TwinShapes ==
    { <<u32_from(0), u32_from(0)>>, <<u32_from(1), u32_from(2)>>,
      <<<<32768, 1>>, u32_from(2)>> }

TwinHeaders ==
    { add_header(<< >>, ImgMetadata(wh[1], wh[2], ch, cs)) :
        wh \in TwinShapes, ch \in ChannelsSet, cs \in Colorspaces }

TwinStreams ==
    { h \o b \o EndMarker : h \in TwinHeaders, b \in DecBodies } \cup LargeStreams

\* the slice parse_chunks is given: 14 bytes the iterator has yielded, then a body
TwinSlices ==
    { add_header(<< >>, ImgMetadata(u32_from(1), u32_from(1), "RGBA", "SrgbLinearAlpha")) \o b :
        b \in DecBodies }

InitTwin ==
    /\ \/ /\ pc = "encode_twin"
          /\ \E inp \in ShortInputs \cup StrayInputs \cup RevisitInputs :
                pixels = inp.pixels /\ metadata = inp.metadata
          /\ bytes = << >>
          /\ twin = None
       \/ /\ pc \in {"decode_twin", "parse_chunks_twin"}
          /\ pixels = << >>
          /\ metadata = ImgMetadata(u32_from(0), u32_from(0), "RGB", "SrgbLinearAlpha")
          /\ IF pc = "decode_twin"
             THEN bytes \in TwinStreams /\ twin = Some(TwinOf(FlipColorspace(bytes)))
             ELSE bytes \in TwinSlices /\ twin = None
    /\ panic = "none"
    /\ add_chunks_result = "none"
    /\ chunks = << >>
    /\ enc_log = << >>
    /\ pos = 0
    /\ run_count = 0
    /\ operation = "none"
    /\ iter = IF pc = "parse_chunks_twin" THEN 14 ELSE 0
    /\ d_metadata = None
    /\ total_pixels = u32_from(0)
    /\ decoded = << >>
    /\ pixels_seen = 0
    /\ prev_pixel = InitialPixel
    /\ d_index = EmptyIndex
    /\ tag = None
    /\ d_operation = "none"
    /\ InitRegisters

\* encode(pixels, metadata) and encode(pixels, metadata with the other colorspace)
EncodeTwin ==
    /\ pc = "encode_twin"
    /\ \E first \in {encode(pixels, metadata)},
          second \in {encode(pixels, OtherColorspace(metadata))} :
          /\ bytes' = first.bytes
          /\ panic' = first.panic
          /\ twin' = Some([TwinOf(second.bytes) EXCEPT !.panic = second.panic])
          /\ pc' = IF first.panic = "none" /\ second.panic = "none" THEN "decode_twin"
                   ELSE "panicked"
    /\ UNCHANGED <<metadata, pixels, add_chunks_result, encVars, decVars>>

\* decode of the two streams, by one build; each call makes its own reservation
DecodeTwin ==
    /\ pc = "decode_twin"
    /\ \E checked \in BOOLEAN, reserved \in BOOLEAN \X BOOLEAN :
          \E first \in {decode(bytes, checked, reserved[1])},
             second \in {decode(unwrap(twin).bytes, checked, reserved[2])} :
             /\ panic' = first.panic
             /\ d_metadata' = first.metadata
             /\ decoded' = first.decoded
             /\ twin' = Some([unwrap(twin) EXCEPT !.panic = second.panic,
                                                  !.metadata = second.metadata,
                                                  !.decoded = second.decoded])
    /\ pc' = "decoded_twin"
    /\ UNCHANGED <<metadata, pixels, bytes, add_chunks_result, encVars, iter, total_pixels,
                   pixels_seen, prev_pixel, d_index, tag, d_operation>>

\* parse_chunks on one slice with include_alpha = true and with include_alpha = false
ParseChunksTwin ==
    /\ pc = "parse_chunks_twin"
    /\ \E first \in {parse_chunks(bytes, 14, TRUE)},
          second \in {parse_chunks(bytes, 14, FALSE)} :
          /\ panic' = first.panic
          /\ iter' = first.iter
          /\ decoded' = first.out
          /\ pixels_seen' = first.pixels_seen
          /\ prev_pixel' = first.prev_pixel
          /\ d_index' = first.index
          /\ twin' = Some(TwinRecord(bytes, second.panic, None, second.out,
                                     second.pixels_seen, second.prev_pixel, second.index))
    /\ pc' = "parsed_twin"
    /\ UNCHANGED <<metadata, pixels, bytes, add_chunks_result, encVars, d_metadata,
                   total_pixels, tag, d_operation>>

NextTwin == EncodeTwin \/ DecodeTwin \/ ParseChunksTwin

SpecTwin == InitTwin /\ [][NextTwin]_vars

(***************************************************************************)
(* add_chunks statement by statement: the selection and the flush of a     *)
(* pending run, the match on the operation, the test of the run counter,   *)
(* the index write.  Beside it run two other encoders on the same pixels,  *)
(* kept in twin: reset, which flushes a run when its counter reaches 62    *)
(* and resets it to 0, and skip, which is add_chunks without the index     *)
(* write on RUN steps.                                                     *)
(***************************************************************************)
\* every short sequence of pixels, the long runs, and buffers with stray bytes
RunInputs ==
    { [pixels |-> FlattenPixels(ps, ch = "RGBA"),
       metadata |-> ImgMetadata(u32_from(Len(ps)), u32_from(1), ch, "SrgbLinearAlpha")] :
        ps \in PixelSeqs(MaxLen) \cup LongSeqs, ch \in ChannelsSet }
    \cup StrayInputs

\* the rule 'when the counter reaches 62, emit RUN(62) and reset to 0' for one
\* pixel: opcode is what the operation pushes when it is not a RUN
reset_rule(op, rc, opcode) ==
    LET flush == op # "QoiOpRun" /\ rc > 0
        rc1 == IF flush THEN 0 ELSE rc
        rc2 == IF op = "QoiOpRun" THEN rc1 + 1 ELSE rc1
        full == op = "QoiOpRun" /\ rc2 = 62
    IN [out |-> (IF flush THEN <<192 + rc - 1>> ELSE << >>) \o opcode
                \o (IF full THEN <<253>> ELSE << >>),
        run_count |-> IF full THEN 0 ELSE rc2]

\* the iteration of add_chunks with the index written only when the operation is
\* not RUN
skip_rule(st, idx) ==
    [st EXCEPT !.index = IF st.operation = "QoiOpRun" THEN idx ELSE st.index]

TwinEncoders(rb, rrc, sb, src, sidx) ==
    [reset |-> [bytes |-> rb, run_count |-> rrc],
     skip |-> [bytes |-> sb, run_count |-> src, index |-> sidx]]

InitRun ==
    /\ pc = "add_chunks_run"
    /\ \E inp \in RunInputs : pixels = inp.pixels /\ metadata = inp.metadata
    /\ panic = "none"
    /\ bytes = << >>
    /\ add_chunks_result = "none"
    /\ chunks = << >>
    /\ enc_log = << >>
    /\ pos = 0
    /\ run_count = 0
    /\ operation = "none"
    /\ iter = 0
    /\ d_metadata = None
    /\ total_pixels = u32_from(0)
    /\ decoded = << >>
    /\ pixels_seen = 0
    /\ prev_pixel = InitialPixel
    /\ d_index = EmptyIndex
    /\ tag = None
    /\ d_operation = "none"
    /\ twin = Some(TwinEncoders(<< >>, 0, << >>, 0, EmptyIndex))
    /\ InitRegisters

\* add_chunks up to its loop
RunEnter ==
    /\ pc = "add_chunks_run"
    /\ IF Len(pixels) % expected_values_per_pixel(alpha_included(metadata)) # 0
       THEN /\ add_chunks_result' = "Err"
            /\ pc' = "run_returned"
            /\ UNCHANGED <<index, previous_pixel, run_count, pos>>
       ELSE /\ index' = EmptyIndex
            /\ previous_pixel' = InitialPixel
            /\ run_count' = 0
            /\ pos' = 0
            /\ pc' = "run_loop"
            /\ UNCHANGED add_chunks_result
    /\ UNCHANGED <<panic, metadata, pixels, twin, bytes, chunks, enc_log, pixel, operation,
                   decVars>>

\* the pixel is read, the operation found, and a pending run flushed when the
\* operation is not RUN
RunSelect ==
    /\ pc = "run_loop"
    /\ Len(pixels) - pos >= expected_values_per_pixel(alpha_included(metadata))
    /\ \E px \in {read_pixel(pixels, pos, alpha_included(metadata))} :
       \E op \in {find_operation(previous_pixel, px, index)} :
          /\ pos' = pos + expected_values_per_pixel(alpha_included(metadata))
          /\ pixel' = Some(px)
          /\ operation' = op
          /\ IF op # "QoiOpRun" /\ run_count > 0
             THEN IF run_failure(run_count) # "none"
                  THEN /\ pc' = "panicked"
                       /\ panic' = run_failure(run_count)
                       /\ UNCHANGED <<bytes, chunks, run_count>>
                  ELSE /\ bytes' = bytes \o push_run(run_count)
                       /\ chunks' = Append(chunks, Chunk("QoiOpRun", push_run(run_count)))
                       /\ run_count' = 0
                       /\ pc' = "run_match"
                       /\ UNCHANGED panic
             ELSE /\ pc' = "run_match"
                  /\ UNCHANGED <<panic, bytes, chunks, run_count>>
    /\ UNCHANGED <<metadata, pixels, twin, add_chunks_result, enc_log, index,
                   previous_pixel, decVars>>

\* match operation: the opcode is pushed, or the run counter incremented
RunMatch ==
    /\ pc = "run_match"
    /\ IF operation = "QoiOpRun"
       THEN /\ IF run_count + 1 >= U8
               THEN pc' = "panicked" /\ panic' = "overflow" /\ UNCHANGED run_count
               ELSE pc' = "run_split" /\ run_count' = run_count + 1 /\ UNCHANGED panic
            /\ UNCHANGED <<bytes, chunks>>
       ELSE /\ IF push_failure(operation, unwrap(pixel), previous_pixel) # "none"
               THEN /\ pc' = "panicked"
                    /\ panic' = push_failure(operation, unwrap(pixel), previous_pixel)
                    /\ UNCHANGED <<bytes, chunks>>
               ELSE /\ chunks' = chunks \o
                                    push_operation(operation, unwrap(pixel), previous_pixel)
                    /\ bytes' = bytes \o Flatten(push_operation(operation, unwrap(pixel),
                                                                previous_pixel))
                    /\ pc' = "run_write"
                    /\ UNCHANGED panic
            /\ UNCHANGED run_count
    /\ UNCHANGED <<metadata, pixels, twin, add_chunks_result, enc_log, pos, index,
                   previous_pixel, pixel, operation, decVars>>

\* if run_count >= 63: push_run(62), run_count -= 62
RunSplit ==
    /\ pc = "run_split"
    /\ IF run_full(run_count)
       THEN IF run_failure(run_flush_length) # "none"
            THEN /\ pc' = "panicked"
                 /\ panic' = run_failure(run_flush_length)
                 /\ UNCHANGED <<bytes, chunks, run_count>>
            ELSE /\ bytes' = bytes \o push_run(run_flush_length)
                 /\ chunks' = Append(chunks, Chunk("QoiOpRun", push_run(run_flush_length)))
                 /\ run_count' = run_carry(run_count)
                 /\ pc' = "run_write"
                 /\ UNCHANGED panic
       ELSE /\ pc' = "run_write"
            /\ UNCHANGED <<panic, bytes, chunks, run_count>>
    /\ UNCHANGED <<metadata, pixels, twin, add_chunks_result, enc_log, pos, index,
                   previous_pixel, pixel, operation, decVars>>

\* the index write and previous_pixel = pixel; the two other encoders take the
\* pixel too
RunWrite ==
    /\ pc = "run_write"
    /\ index' = index_set(index, calculate_index(unwrap(pixel)), unwrap(pixel))
    /\ previous_pixel' = unwrap(pixel)
    /\ \E r \in {reset_rule(operation, unwrap(twin).reset.run_count,
                            Flatten(push_operation(operation, unwrap(pixel),
                                                   previous_pixel)))},
          k \in {skip_rule(add_chunks_step(previous_pixel, unwrap(twin).skip.index,
                                           unwrap(twin).skip.run_count, unwrap(pixel)),
                           unwrap(twin).skip.index)} :
          twin' = Some(TwinEncoders(unwrap(twin).reset.bytes \o r.out, r.run_count,
                                    unwrap(twin).skip.bytes \o Flatten(k.out),
                                    k.run_count, k.index))
    /\ pc' = "run_loop"
    /\ UNCHANGED <<panic, metadata, pixels, bytes, add_chunks_result, chunks, enc_log, pos,
                   run_count, pixel, operation, decVars>>

\* after the loop: the final flush, Ok(())
RunReturn ==
    /\ pc = "run_loop"
    /\ Len(pixels) - pos < expected_values_per_pixel(alpha_included(metadata))
    /\ IF run_count > 0 /\ run_failure(run_count) # "none"
       THEN /\ pc' = "panicked"
            /\ panic' = run_failure(run_count)
            /\ UNCHANGED <<bytes, chunks, add_chunks_result, twin>>
       ELSE /\ chunks' = IF run_count > 0
                         THEN Append(chunks, Chunk("QoiOpRun", push_run(run_count)))
                         ELSE chunks
            /\ bytes' = IF run_count > 0 THEN bytes \o push_run(run_count) ELSE bytes
            /\ add_chunks_result' = "Ok"
            /\ twin' = Some([unwrap(twin) EXCEPT
                   !.reset.bytes = IF unwrap(twin).reset.run_count > 0
                                   THEN @ \o <<192 + unwrap(twin).reset.run_count - 1>>
                                   ELSE @,
                   !.skip.bytes = IF unwrap(twin).skip.run_count > 0
                                  THEN @ \o <<192 + unwrap(twin).skip.run_count - 1>>
                                  ELSE @])
            /\ pc' = "run_returned"
            /\ UNCHANGED panic
    /\ UNCHANGED <<metadata, pixels, enc_log, pos, index, previous_pixel, run_count, pixel,
                   operation, decVars>>

NextRun == RunEnter \/ RunSelect \/ RunMatch \/ RunSplit \/ RunWrite \/ RunReturn

SpecRun == InitRun /\ [][NextRun]_vars

(***************************************************************************)
(* The DIFF and LUMA opcodes on their own: find_operation on a previous    *)
(* and a current pixel, the opcode pushed when it is DIFF or LUMA, and one *)
(* iteration of the decoder's loop on those bytes with the same previous   *)
(* pixel.                                                                  *)
(***************************************************************************)
InitDelta ==
    /\ pc = "find_operation"
    /\ \E p \in OpPrevs, dg \in OpGreenDiffs, er \in OpLumaDiffs, eb \in OpLumaDiffs,
          ch \in ChannelsSet :
          /\ previous_pixel = p
          /\ prev_pixel = p
          /\ pixel = Some(Shifted(p, dg + er, dg, dg + eb))
          /\ metadata = ImgMetadata(u32_from(1), u32_from(1), ch, "SrgbLinearAlpha")
    /\ index = EmptyIndex
    /\ d_index = SeededIndex
    /\ pixels = << >>
    /\ panic = "none"
    /\ bytes = << >>
    /\ add_chunks_result = "none"
    /\ chunks = << >>
    /\ enc_log = << >>
    /\ pos = 0
    /\ run_count = 0
    /\ operation = "none"
    /\ iter = 0
    /\ d_metadata = None
    /\ total_pixels = u32_from(0)
    /\ decoded = << >>
    /\ pixels_seen = 0
    /\ tag = None
    /\ d_operation = "none"
    /\ twin = None

\* the arms QoiOpDiff and QoiOpLuma of the match in add_chunks
PushDelta ==
    /\ pc = "found"
    /\ operation \in {"QoiOpDiff", "QoiOpLuma"}
    /\ IF push_failure(operation, unwrap(pixel), previous_pixel) # "none"
       THEN /\ pc' = "panicked"
            /\ panic' = push_failure(operation, unwrap(pixel), previous_pixel)
            /\ UNCHANGED <<bytes, chunks>>
       ELSE /\ chunks' = chunks \o push_operation(operation, unwrap(pixel), previous_pixel)
            /\ bytes' = bytes \o Flatten(push_operation(operation, unwrap(pixel),
                                                        previous_pixel))
            /\ pc' = "delta_pushed"
            /\ UNCHANGED panic
    /\ UNCHANGED <<metadata, pixels, twin, add_chunks_result, enc_log, pos, index,
                   previous_pixel, run_count, pixel, operation, decVars>>

\* one iteration of the loop of parse_chunks on the bytes pushed
WriteDelta ==
    /\ pc = "delta_pushed"
    /\ \E st \in {parse_chunks_step(bytes, 0, prev_pixel, d_index,
                                    alpha_included(metadata))} :
          IF st.panic # "none"
          THEN /\ pc' = "panicked"
               /\ panic' = st.panic
               /\ iter' = st.iter
               /\ tag' = Some(st.tag)
               /\ d_operation' = st.operation
               /\ UNCHANGED <<decoded, pixels_seen, prev_pixel, d_index>>
          ELSE /\ iter' = st.iter
               /\ tag' = Some(st.tag)
               /\ d_operation' = st.operation
               /\ decoded' = decoded \o st.out
               /\ pixels_seen' = pixels_seen + st.count
               /\ d_index' = st.index
               /\ prev_pixel' = st.prev_pixel
               /\ pc' = "delta_written"
               /\ UNCHANGED panic
    /\ UNCHANGED <<metadata, pixels, twin, bytes, add_chunks_result, encVars, d_metadata,
                   total_pixels>>

NextDelta == FindOperation \/ PushDelta \/ WriteDelta

SpecDelta == InitDelta /\ [][NextDelta]_vars

(***************************************************************************)
(* decode on streams whose body is one INDEX or RUN opcode, of every slot  *)
(* and every length, alone or after one RGBA opcode.                       *)
(***************************************************************************)
\* every INDEX tag, and every tag of the RUN range that is not RGB or RGBA
IndexTags == 0..63
RunTags == 192..253
PrefixChunks == { << >>, <<255, 10, 20, 30, 7>> }

\* the pixels a body of a prefix and the tag t stands for
TagPixels(prefix, t) ==
    (IF prefix = << >> THEN 0 ELSE 1) + (IF t \in RunTags THEN (t % 64) + 1 ELSE 1)

TagStreams ==
    { add_header(<< >>, ImgMetadata(u32_from(TagPixels(prefix, t)), u32_from(1), ch,
                             "SrgbLinearAlpha")) \o prefix \o <<t>> \o EndMarker :
        prefix \in PrefixChunks, t \in IndexTags \cup RunTags, ch \in ChannelsSet }
    \cup { add_header(<< >>, ImgMetadata(<<1, 0>>, <<1, 0>>, "RGBA", "SrgbLinearAlpha"))
           \o <<192>> \o EndMarker }
    \cup { v \in LargeStreams : v[14] = 0 }

InitChunk ==
    /\ pc = "decode"
    /\ bytes \in TagStreams
    /\ pixels = << >>
    /\ metadata = ImgMetadata(u32_from(0), u32_from(0), "RGB", "SrgbLinearAlpha")
    /\ panic = "none"
    /\ add_chunks_result = "none"
    /\ chunks = << >>
    /\ enc_log = << >>
    /\ pos = 0
    /\ run_count = 0
    /\ operation = "none"
    /\ iter = 0
    /\ d_metadata = None
    /\ total_pixels = u32_from(0)
    /\ decoded = << >>
    /\ pixels_seen = 0
    /\ prev_pixel = InitialPixel
    /\ d_index = EmptyIndex
    /\ tag = None
    /\ d_operation = "none"
    /\ twin = None
    /\ InitRegisters

NextChunk == VerifyEnding \/ ParseMetadata \/ DecodeTotal \/ ParseChunk \/ ParseChunksReturn

SpecChunk == InitChunk /\ [][NextChunk]_vars

(***************************************************************************)
(* decode on streams of a few chunks, one of each opcode, whole or cut     *)
(* short, under the fairness of a sequential program: a step that can be   *)
(* taken is taken.                                                         *)
(***************************************************************************)
\* RGB, RGBA, INDEX of the seeded slot 53 and of the empty slot 5, DIFF, LUMA,
\* RUN of 2
LoopChunks ==
    { <<254, 10, 20, 30>>, <<255, 10, 20, 30, 7>>, <<53>>, <<5>>, <<64>>, <<128, 15>>,
      <<193>> }

RECURSIVE LoopSeqs(_)
LoopSeqs(n) ==
    IF n = 0 THEN { << >> }
    ELSE { << >> } \cup { c \o r : c \in LoopChunks, r \in LoopSeqs(n - 1) }

LoopBodies ==
    LoopSeqs(MaxChunks) \cup { b \o t : b \in LoopSeqs(MaxChunks - 1), t \in DecTruncated }

\* 2 pixels with alpha, 1 pixel without, and a product that overflows
LoopStreams ==
    { add_header(<< >>, ImgMetadata(u32_from(2), u32_from(1), "RGBA", "SrgbLinearAlpha"))
        \o b \o EndMarker : b \in LoopBodies }
    \cup { add_header(<< >>, ImgMetadata(u32_from(1), u32_from(1), "RGB", "SrgbLinearAlpha"))
             \o b \o EndMarker : b \in LoopBodies }
    \cup { add_header(<< >>, ImgMetadata(<<1, 0>>, <<1, 0>>, "RGBA", "SrgbLinearAlpha"))
           \o <<193>> \o EndMarker }
    \cup { v \in LargeStreams : v[14] = 0 }

InitLoop ==
    /\ pc = "decode"
    /\ bytes \in LoopStreams
    /\ pixels = << >>
    /\ metadata = ImgMetadata(u32_from(0), u32_from(0), "RGB", "SrgbLinearAlpha")
    /\ panic = "none"
    /\ add_chunks_result = "none"
    /\ chunks = << >>
    /\ enc_log = << >>
    /\ pos = 0
    /\ run_count = 0
    /\ operation = "none"
    /\ iter = 0
    /\ d_metadata = None
    /\ total_pixels = u32_from(0)
    /\ decoded = << >>
    /\ pixels_seen = 0
    /\ prev_pixel = InitialPixel
    /\ d_index = EmptyIndex
    /\ tag = None
    /\ d_operation = "none"
    /\ twin = None
    /\ InitRegisters

NextLoop == VerifyEnding \/ ParseMetadata \/ DecodeTotal \/ ParseChunk \/ ParseChunksReturn

SpecLoop == InitLoop /\ [][NextLoop]_vars /\ WF_vars(NextLoop)

(***************************************************************************)
(* Properties of the encode / decode pipeline (specification Spec).        *)
(***************************************************************************)
Channels == IF alpha_included(metadata) THEN 4 ELSE 3

\* the encoder's registers after its k-th pixel, from the history of its steps
EncPrevAfter(k) == IF k = 0 THEN InitialPixel ELSE enc_log[k].prev
EncIndexAfter(k) ==
    LET last(s) == CHOOSE i \in 1..k :
                      enc_log[i].slot = s /\ \A j \in (i + 1)..k : enc_log[j].slot # s
    IN [s \in { enc_log[i].slot : i \in 1..k } |-> enc_log[last(s)].val]

\* the decoder is between two opcodes and has reconstructed at least one pixel
DecoderAtPixel == pc = "parse_chunks" /\ pixels_seen >= 1

OpsOf(kind) == { i \in 1..Len(chunks) : chunks[i].op = kind }

\* C2 as stated: once the decoder has reconstructed the k-th pixel it holds the
\* previous pixel and, in all 64 slots, the index the encoder held after its k-th
\* pixel.
C2_Original ==
    DecoderAtPixel =>
        /\ prev_pixel = EncPrevAfter(pixels_seen)
        /\ \A s \in IndexSlots :
              index_get(d_index, s) = index_get(EncIndexAfter(pixels_seen), s)

\* C2 amended: the previous pixels are equal, and every index slot is equal except
\* that slots 0 and 53, while the encoder has not written them, are empty in the
\* encoder and hold the decoder's seeded pixels (0,0,0,0) and (0,0,0,255).
C2_Synchronised ==
    DecoderAtPixel =>
        /\ prev_pixel = EncPrevAfter(pixels_seen)
        /\ \A s \in IndexSlots :
              \/ index_get(d_index, s) = index_get(EncIndexAfter(pixels_seen), s)
              \/ /\ index_get(EncIndexAfter(pixels_seen), s) = None
                 /\ s \in {0, 53}
                 /\ index_get(d_index, s) = index_get(SeededIndex, s)

C2_Witness ==
    /\ DecoderAtPixel
    /\ pixels_seen >= 3
    /\ d_operation = "QoiOpIndex"
    /\ prev_pixel = EncPrevAfter(pixels_seen)
    /\ index_get(EncIndexAfter(pixels_seen), 0) = None
    /\ index_get(d_index, 0) # None
    /\ \E s \in IndexSlots \ {0, 53} : index_get(d_index, s) # None

\* the pixels so far that equal their predecessor
Repeats == { k \in 1..Len(enc_log) : enc_log[k].prev = EncPrevAfter(k - 1) }

RECURSIVE RunTotal(_)
RunTotal(cs) ==
    IF cs = << >> THEN 0
    ELSE (IF Head(cs).op = "QoiOpRun" THEN (Head(cs).data[1] % 64) + 1 ELSE 0)
         + RunTotal(Tail(cs))

\* C3: the byte stream is the sequence of pushed opcodes, no two consecutive INDEX
\* opcodes name the same slot, and every pixel equal to its predecessor is counted
\* into a RUN: the RUN lengths pushed plus the pending run count equal the number
\* of such pixels.
C3_NoRepeatedIndex ==
    pc \in {"add_chunks_loop", "add_end_marker"} =>
        /\ bytes = add_header(<< >>, metadata) \o Flatten(chunks)
        /\ \A i \in 1..(Len(chunks) - 1) :
              ~ /\ chunks[i].op = "QoiOpIndex"
                /\ chunks[i + 1].op = "QoiOpIndex"
                /\ chunks[i].data = chunks[i + 1].data
        /\ RunTotal(chunks) + (IF pc = "add_chunks_loop" THEN run_count ELSE 0)
              = Cardinality(Repeats)

C3_Witness ==
    /\ pc = "add_end_marker"
    /\ Len(chunks) = 4
    /\ chunks[3].op = "QoiOpIndex"
    /\ chunks[4].op = "QoiOpRun"
    /\ index_get(index, chunks[3].data[1]) = Some(previous_pixel)

\* C4: push_run is never called with a length outside 1..62, and every RUN opcode
\* pushed is the single byte 0xC0 + (length - 1) in 0xC0..0xFD.
C4_RunLength ==
    /\ panic # "push_run"
    /\ \A i \in OpsOf("QoiOpRun") :
          /\ Len(chunks[i].data) = 1
          /\ chunks[i].data[1] \in 192..253

C4_Witness ==
    /\ pc = "add_end_marker"
    /\ Len(chunks) >= 3
    /\ chunks[1].data = <<253>>
    /\ chunks[2].data = <<253>>
    /\ chunks[3].data = <<192>>

\* C7: after every encoder step the operation is RGBA exactly when the pixel's
\* alpha differs from its predecessor's; a chunk starts with 0xFF exactly when it is
\* an RGBA opcode, and there are as many of them as alpha changes.
AlphaChanges == { k \in 1..Len(enc_log) : enc_log[k].prev.a # EncPrevAfter(k - 1).a }

C7_RgbaIffAlpha ==
    (pc \in {"add_chunks_loop", "add_end_marker"} /\ Len(enc_log) >= 1) =>
        /\ (operation = "QoiOpRgba")
              <=> (unwrap(pixel).a # EncPrevAfter(Len(enc_log) - 1).a)
        /\ operation \in {"QoiOpRgb", "QoiOpDiff", "QoiOpLuma"}
              => unwrap(pixel).a = EncPrevAfter(Len(enc_log) - 1).a
        /\ \A i \in 1..Len(chunks) :
              (chunks[i].data[1] = 255) <=> (chunks[i].op = "QoiOpRgba")
        /\ Cardinality(OpsOf("QoiOpRgba")) = Cardinality(AlphaChanges)

C7_Witness ==
    /\ pc = "add_chunks_loop"
    /\ alpha_included(metadata)
    /\ Len(chunks) = 3
    /\ chunks[1].op = "QoiOpRgb"
    /\ chunks[2].op = "QoiOpRgba"
    /\ chunks[3].op = "QoiOpRgba"
    /\ index_get(index, calculate_index(unwrap(pixel))) = Some(unwrap(pixel))

EncoderAssertions == {"push_run", "tag_byte", "create_diff", "create_diff_luma", "overflow"}

\* C8: for a buffer whose length is a multiple of the channel count no assertion of
\* the chunk encoder fails and add_chunks does not return Err; once its loop is
\* over it has returned Ok.
C8_NoEncoderFailure ==
    Len(pixels) % Channels = 0 =>
        /\ panic \notin EncoderAssertions
        /\ panic # "add_chunks_unwrap"
        /\ add_chunks_result # "Err"
        /\ pc \in {"add_end_marker", "decode", "parse_metadata", "decode_total",
                   "parse_chunks", "decoded"} => add_chunks_result = "Ok"

C8_Witness ==
    /\ pc = "add_end_marker"
    /\ add_chunks_result = "Ok"
    /\ OpsOf("QoiOpDiff") # {}
    /\ OpsOf("QoiOpLuma") # {}
    /\ OpsOf("QoiOpRun") # {}

\* C9: add_chunks returns Err exactly when the buffer length is not a multiple of
\* the channel count (4 with alpha, 3 without), and then the output buffer still
\* holds what it held at the call: the header and nothing else.
C9_LengthError ==
    pc \notin {"encode", "add_chunks"} =>
        /\ (add_chunks_result = "Err") <=> (Len(pixels) % Channels # 0)
        /\ add_chunks_result = "Err" => (bytes = add_header(<< >>, metadata) /\ chunks = << >>)

C9_Witness ==
    /\ add_chunks_result = "Err"
    /\ alpha_included(metadata)
    /\ Len(pixels) > 4
    /\ Len(pixels) % 3 = 0

(***************************************************************************)
(* Properties of find_operation (specification SpecOp).                    *)
(***************************************************************************)
Found == pc = "found"
SameAlpha == previous_pixel.a = unwrap(pixel).a
Resident == index_get(index, calculate_index(unwrap(pixel))) = Some(unwrap(pixel))

\* C5: the priority RGBA > RUN > INDEX > DIFF / LUMA / RGB. RGBA exactly when the
\* alphas differ; else RUN exactly when the pixels are equal; else INDEX exactly
\* when the slot of the current pixel holds that very pixel; else one of DIFF,
\* LUMA, RGB.
C5_Priority ==
    Found =>
        /\ (operation = "QoiOpRgba") <=> ~SameAlpha
        /\ (operation = "QoiOpRun") <=> (SameAlpha /\ unwrap(pixel) = previous_pixel)
        /\ (operation = "QoiOpIndex")
              <=> (SameAlpha /\ unwrap(pixel) # previous_pixel /\ Resident)
        /\ (operation \in {"QoiOpDiff", "QoiOpLuma", "QoiOpRgb"})
              <=> (SameAlpha /\ unwrap(pixel) # previous_pixel /\ ~Resident)

\* a colliding pixel sits in the slot and INDEX is not selected
C5_Witness ==
    /\ Found
    /\ SameAlpha
    /\ index_get(index, calculate_index(unwrap(pixel))) = Some(Collider(unwrap(pixel)))
    /\ operation = "QoiOpLuma"

\* the difference current - previous of one channel, wrapped to 8 bits, as a
\* signed number in -128..127
Signed(d) == IF d >= 128 THEN d - U8 ELSE d
Delta(c, p) == Signed((c - p + U8) % U8)
DeltaR == Delta(unwrap(pixel).r, previous_pixel.r)
DeltaG == Delta(unwrap(pixel).g, previous_pixel.g)
DeltaB == Delta(unwrap(pixel).b, previous_pixel.b)
Modular(x) == Signed((x + 2 * U8) % U8)
InDiffRange == DeltaR \in -2..1 /\ DeltaG \in -2..1 /\ DeltaB \in -2..1
InLumaRange ==
    /\ DeltaG \in -32..31
    /\ Modular(DeltaR - DeltaG) \in -8..7
    /\ Modular(DeltaB - DeltaG) \in -8..7

\* C6: with equal alpha, different pixels and the current pixel not resident, DIFF
\* is selected exactly when dr, dg, db are in -2..1; otherwise LUMA exactly when dg
\* is in -32..31 and dr - dg, db - dg are in -8..7; otherwise RGB. The differences
\* are the 8-bit wrapped ones.
C6_DiffLumaRanges ==
    (Found /\ SameAlpha /\ unwrap(pixel) # previous_pixel /\ ~Resident) =>
        /\ (operation = "QoiOpDiff") <=> InDiffRange
        /\ (operation = "QoiOpLuma") <=> (~InDiffRange /\ InLumaRange)
        /\ (operation = "QoiOpRgb") <=> (~InDiffRange /\ ~InLumaRange)

\* previous G = 255, current G = 0: dg = 1, and DIFF is selected
C6_Witness ==
    /\ Found
    /\ previous_pixel.g = 255
    /\ unwrap(pixel).g = 0
    /\ previous_pixel.r = 0
    /\ unwrap(pixel).r = 255
    /\ DeltaG = 1
    /\ operation = "QoiOpDiff"

(***************************************************************************)
(* Properties of the header framer (specification SpecHeader).             *)
(***************************************************************************)
\* C10: add_header writes 14 bytes: 'qoif', the width and the height most
\* significant byte first, the channels byte 3 or 4, the colorspace byte 0 or 1;
\* parse_metadata on those bytes returns the record add_header was given.  The
\* buffer add_header is given is empty; on any other it aborts and writes nothing.
C10_HeaderRoundTrip ==
    /\ pc = "panicked" => (panic = "add_header_assert" /\ bytes = <<9>>)
    /\ pc \in {"header_written", "header_parsed"} =>
          /\ Len(bytes) = 14
          /\ \A i \in 1..14 : bytes[i] \in 0..255
          /\ SubSeq(bytes, 1, 4) = <<113, 111, 105, 102>>
          /\ bytes[5] * 256 + bytes[6] = metadata.width[1]
          /\ bytes[7] * 256 + bytes[8] = metadata.width[2]
          /\ bytes[9] * 256 + bytes[10] = metadata.height[1]
          /\ bytes[11] * 256 + bytes[12] = metadata.height[2]
          /\ bytes[13] = (IF metadata.channels = "RGB" THEN 3 ELSE 4)
          /\ bytes[14] = (IF metadata.colorspace = "SrgbLinearAlpha" THEN 0 ELSE 1)
    /\ pc = "header_parsed" => d_metadata = Some(metadata)

C10_Witness ==
    /\ pc = "header_parsed"
    /\ d_metadata = Some(metadata)
    /\ metadata.width = <<65535, 65535>>
    /\ metadata.height = <<258, 772>>
    /\ metadata.channels = "RGBA"
    /\ metadata.colorspace = "AllLinearAlpha"
    /\ SubSeq(bytes, 5, 12) = <<255, 255, 255, 255, 1, 2, 3, 4>>

\* the k-th pixel of the buffer as <<r, g, b, a>>, the 0-th being the initial
\* previous pixel
PixelCount == Len(pixels) \div Channels
Px(k) ==
    IF k = 0 THEN <<0, 0, 0, 255>>
    ELSE LET b == (k - 1) * Channels
         IN <<pixels[b + 1], pixels[b + 2], pixels[b + 3],
              IF Channels = 4 THEN pixels[b + 4] ELSE 255>>

\* the RUN bytes of a block of n repeats: n div 62 times 0xFD, then the rest
RunBytes(n) ==
    [i \in 1..(n \div 62) |-> 253]
    \o (IF n % 62 # 0 THEN <<192 + (n % 62) - 1>> ELSE << >>)

\* the opcodes expected from pixel k on, n repeats pending: 0 for an opcode that
\* is not a RUN, the byte for one that is
RECURSIVE RunShape(_, _)
RunShape(k, n) ==
    IF k > PixelCount THEN RunBytes(n)
    ELSE IF Px(k) = Px(k - 1) THEN RunShape(k + 1, n + 1)
    ELSE RunBytes(n) \o <<0>> \o RunShape(k + 1, 0)

ChunkShape ==
    [i \in 1..Len(chunks) |-> IF chunks[i].op = "QoiOpRun" THEN chunks[i].data[1] ELSE 0]

\* C19: when add_chunks has returned, every maximal block of n pixels each equal to
\* its predecessor has been emitted as n div 62 RUN opcodes 0xFD followed by one RUN
\* opcode of length n mod 62 when that is not 0, every other pixel as one opcode
\* that is not a RUN, in the order of the pixels.
C19_RunBlocks ==
    pc = "add_end_marker" =>
        /\ ChunkShape = RunShape(1, 0)
        /\ \A i \in 1..Len(chunks) : chunks[i].op = "QoiOpRun" => Len(chunks[i].data) = 1

\* 63 pixels (0,0,0[,255]) give FD C0
C19_Witness ==
    /\ pc = "add_end_marker"
    /\ PixelCount = 63
    /\ \A k \in 1..63 : Px(k) = <<0, 0, 0, 255>>
    /\ bytes = add_header(<< >>, metadata) \o <<253, 192>>

(***************************************************************************)
(* Properties of decode on arbitrary streams (specification SpecDec).      *)
(***************************************************************************)
HeaderPanics ==
    {"parse_metadata_len", "parse_metadata_magic", "parse_metadata_channels",
     "parse_metadata_colorspace"}

\* decode has got past verify_ending and parse_metadata has run
PastHeader ==
    \/ pc \in {"decode_total", "parse_chunks", "decoded"}
    \/ pc = "panicked" /\ panic \notin {"verify_ending", "add_chunks_unwrap"}

HeaderFailed == pc = "panicked" /\ panic \in HeaderPanics

\* the bytes before the end marker are no header
BadHeader ==
    LET h == SubSeq(bytes, 1, Len(bytes) - 8)
    IN \/ Len(h) < 14
       \/ <<h[1], h[2], h[3], h[4]>> # <<113, 111, 105, 102>>
       \/ h[13] # 3 /\ h[13] # 4
       \/ h[14] # 0 /\ h[14] # 1

\* C11: header decoding fails, and returns no metadata, exactly when fewer than 14
\* bytes precede the end marker, the first four are not 'qoif', the channels byte
\* is not 3 or 4, or the colorspace byte is not 0 or 1, in that order of tests and
\* with the bytes up to the one that failed taken from the iterator; otherwise it
\* returns the record the header spells, 14 bytes taken.
C11_HeaderErrors ==
    PastHeader =>
        /\ HeaderFailed <=> BadHeader
        /\ HeaderFailed => d_metadata = None
        /\ panic = "parse_metadata_len" <=> Len(bytes) - 8 < 14
        /\ panic = "parse_metadata_len" => iter = 0
        /\ panic = "parse_metadata_magic" =>
              (iter = 4 /\ SubSeq(bytes, 1, 4) # <<113, 111, 105, 102>>)
        /\ panic = "parse_metadata_channels" =>
              (iter = 13 /\ bytes[13] \notin {3, 4} /\ SubSeq(bytes, 1, 4) = <<113, 111, 105, 102>>)
        /\ panic = "parse_metadata_colorspace" =>
              (iter = 14 /\ bytes[14] \notin {0, 1} /\ bytes[13] \in {3, 4})
        /\ pc = "decode_total" => iter = 14
        /\ ~HeaderFailed =>
              /\ d_metadata # None
              /\ unwrap(d_metadata).channels = (IF bytes[13] = 3 THEN "RGB" ELSE "RGBA")
              /\ unwrap(d_metadata).colorspace =
                    (IF bytes[14] = 0 THEN "SrgbLinearAlpha" ELSE "AllLinearAlpha")
              /\ unwrap(d_metadata).width = <<bytes[5] * 256 + bytes[6], bytes[7] * 256 + bytes[8]>>
              /\ unwrap(d_metadata).height =
                    <<bytes[9] * 256 + bytes[10], bytes[11] * 256 + bytes[12]>>

\* a header of 14 bytes with the right magic and channels and a colorspace byte of 2
C11_Witness ==
    /\ pc = "panicked"
    /\ panic = "parse_metadata_colorspace"
    /\ d_metadata = None
    /\ iter = 14
    /\ Len(bytes) >= 22
    /\ bytes[14] = 2
EncoderPositions == {"encode", "add_chunks", "add_chunks_loop", "add_end_marker"}

\* decode has been called and verify_ending has run
PastEnding ==
    /\ pc \notin EncoderPositions \cup {"decode"}
    /\ panic # "add_chunks_unwrap"

BadEnding ==
    \/ Len(bytes) < 8
    \/ \E i \in 1..7 : bytes[Len(bytes) - 8 + i] # 0
    \/ bytes[Len(bytes)] # 1

\* C12: decode aborts in verify_ending, nothing else parsed, exactly when its input
\* is shorter than 8 bytes or does not end with 00 00 00 00 00 00 00 01; and what
\* encode returns ends with those 8 bytes.
C12_EndMarker ==
    /\ PastEnding =>
          /\ (pc = "panicked" /\ panic = "verify_ending") <=> BadEnding
          /\ panic = "verify_ending" =>
                (d_metadata = None /\ iter = 0 /\ decoded = << >> /\ pixels_seen = 0)
          /\ BadEnding => panic \notin HeaderPanics
    /\ (add_chunks_result = "Ok" /\ pc \notin EncoderPositions) =>
          /\ Len(bytes) >= 22
          /\ SubSeq(bytes, Len(bytes) - 7, Len(bytes)) = <<0, 0, 0, 0, 0, 0, 0, 1>>
          /\ ~BadEnding

\* an input of 8 bytes or more whose last byte is 1 and whose ending is not the marker;
\* its header is no header either, and verify_ending is what aborts
C12_Witness ==
    /\ pc = "panicked"
    /\ panic = "verify_ending"
    /\ Len(bytes) = 8
    /\ bytes[Len(bytes)] = 1
    /\ bytes[Len(bytes) - 1] = 1
\* the chunk body of the input, parsed whether or not decode parses it
BodyParse == parse_chunks(SubSeq(bytes, 1, Len(bytes) - 8), 14, bytes[13] = 4)

\* width x height of the header as a number, when it is below 2^16
ExactProduct(md) == md.width[2] * md.height[2]
SmallShape(md) == md.width[1] = 0 /\ md.height[1] = 0 /\ ExactProduct(md) < U16

\* C13 as stated, for headers whose width x height is below 2^16: decode returns
\* only when the chunk body is well formed and represents exactly width x height
\* pixels, a width or height of 0 included.
C13_Original ==
    (pc = "decoded" /\ SmallShape(unwrap(d_metadata))) =>
        /\ BodyParse.panic = "none"
        /\ BodyParse.pixels_seen = ExactProduct(unwrap(d_metadata))
\* the tag the loop of parse_chunks is about to read
ChunkBody == SubSeq(bytes, 1, Len(bytes) - 8)
AtTag == pc = "parse_chunks" /\ iter < Len(ChunkBody)
NextTag == ChunkBody[iter + 1]
Emitted(p) == IF bytes[13] = 4 THEN <<p.r, p.g, p.b, p.a>> ELSE <<p.r, p.g, p.b>>

\* C14: a step of the decoder on an INDEX tag (top bits 00, slot = tag & 0x3F) aborts
\* with the tag taken and nothing written when the slot is empty, and otherwise
\* decodes exactly the pixel the slot holds.
C14_IndexSlot ==
    [][ (AtTag /\ NextTag < 64) =>
            IF NextTag \notin DOMAIN d_index
            THEN /\ pc' = "panicked"
                 /\ panic' = "index_unwrap"
                 /\ decoded' = decoded
                 /\ pixels_seen' = pixels_seen
                 /\ iter' = iter + 1
            ELSE /\ pc' = "parse_chunks"
                 /\ panic' = "none"
                 /\ prev_pixel' = d_index[NextTag]
                 /\ decoded' = decoded \o Emitted(d_index[NextTag])
                 /\ pixels_seen' = pixels_seen + 1
                 /\ iter' = iter + 1 ]_vars

\* one pixel decoded, then an INDEX of slot 5, which nothing has written
C14_Witness ==
    /\ pc = "panicked"
    /\ panic = "index_unwrap"
    /\ pixels_seen = 1
    /\ Len(decoded) >= 3
    /\ iter >= 16
    /\ ChunkBody[iter] = 5
    /\ 5 \notin DOMAIN d_index
    /\ 9 \in DOMAIN d_index
\* C13, what does hold of the pixel count: when the 32-bit product is not 0, decode
\* returns only if the body is well formed and represents that many pixels, and
\* then it returns them all.
C13_CountChecked ==
    (pc = "decoded" /\ total_pixels # <<0, 0>>) =>
        /\ BodyParse.panic = "none"
        /\ <<0, BodyParse.pixels_seen>> = total_pixels
        /\ decoded = BodyParse.out

C13_Witness ==
    /\ pc = "panicked"
    /\ panic = "assert_total_pixels"
    /\ BodyParse.panic = "none"
    /\ BodyParse.pixels_seen = 3
    /\ unwrap(d_metadata).width = <<0, 2>>
    /\ unwrap(d_metadata).height = <<0, 2>>

\* payload bytes an opcode takes after its tag
Needed(t) == IF t = 254 THEN 3 ELSE IF t = 255 THEN 4 ELSE IF t \in 128..191 THEN 1 ELSE 0
Truncated == AtTag /\ Len(ChunkBody) - (iter + 1) < Needed(NextTag)

\* C15, what does hold of truncated payloads: within parse_chunks the iterator never
\* passes the last byte before the end marker, and a step on a tag whose payload is
\* cut short by the end of the chunk body aborts (RGB 3 bytes, RGBA 4, LUMA 1) with
\* the bytes that were left taken from the iterator and none written, after which
\* nothing is returned.
C15_TruncatedPayload ==
    /\ [](iter <= Len(ChunkBody))
    /\ [](panic = "iter_unwrap" => pc = "panicked")
    /\ [][ Truncated => (pc' = "panicked" /\ panic' = "iter_unwrap" /\ decoded' = decoded
                         /\ iter' = Len(ChunkBody)) ]_vars
    /\ [][ pc = "panicked" => pc' = "panicked" ]_vars

\* C15 as stated, for headers whose width x height is below 2^16: decode does
\* not return when the payload of the last opcode of the chunk body is cut short.
C15_Original ==
    (pc = "decoded" /\ SmallShape(unwrap(d_metadata))) => BodyParse.panic # "iter_unwrap"

\* one whole chunk, then an RGB tag with two of its three bytes before the marker
C15_Witness ==
    /\ pc = "panicked"
    /\ panic = "iter_unwrap"
    /\ ~BadEnding
    /\ pixels_seen >= 1
    /\ iter = Len(ChunkBody)
    /\ Len(ChunkBody) = 14 + 4 + 3
    /\ ChunkBody[15] = 254
    /\ ChunkBody[19] = 254

(***************************************************************************)
(* Properties of parse_operation (specification SpecTag).                  *)
(***************************************************************************)
\* C16: parse_operation returns an operation for each of the 256 bytes: RGB for
\* 0xFE, RGBA for 0xFF, and for any other byte INDEX, DIFF, LUMA or RUN by its two
\* top bits 00, 01, 10, 11; so RUN exactly for 0xC0..0xFD.
C16_ParseOperation ==
    pc = "parsed" =>
        LET t == tag[1]
        IN /\ d_operation \in {"QoiOpRgb", "QoiOpRgba", "QoiOpIndex", "QoiOpDiff",
                               "QoiOpLuma", "QoiOpRun"}
           /\ (d_operation = "QoiOpRgb") <=> (t = 254)
           /\ (d_operation = "QoiOpRgba") <=> (t = 255)
           /\ (d_operation = "QoiOpIndex") <=> (t \in 0..63)
           /\ (d_operation = "QoiOpDiff") <=> (t \in 64..127)
           /\ (d_operation = "QoiOpLuma") <=> (t \in 128..191)
           /\ (d_operation = "QoiOpRun") <=> (t \in 192..253)

C16_Witness ==
    /\ pc = "parsed"
    /\ tag = <<254>>
    /\ d_operation = "QoiOpRgb"

(***************************************************************************)
(* Properties of calculate_index (specification SpecIndex).                *)
(***************************************************************************)
\* C17: the slot written for pixel p is (3r + 5g + 7b + 11a) mod 64, the products
\* and the sum taken as numbers (no 8-bit overflow); it is in 0..63 and the encoder
\* and the decoder write the same slot.
C17_Hash ==
    pc = "indexed" =>
        LET p == pixel[1]
            h == (3 * p.r + 5 * p.g + 7 * p.b + 11 * p.a) % 64
        IN /\ h \in 0..63
           /\ DOMAIN index = {h}
           /\ DOMAIN d_index = {h}
           /\ index[h] = p
           /\ d_index[h] = p

\* pixel (5,107,203,251) goes to slot 60
C17_Witness ==
    /\ pc = "indexed"
    /\ pixel = << [r |-> 5, g |-> 107, b |-> 203, a |-> 251] >>
    /\ DOMAIN index = {60}
    /\ DOMAIN d_index = {60}

(***************************************************************************)
(* Properties of two calls side by side (specification SpecTwin).          *)
(***************************************************************************)
\* C18: encode of the same pixels under metadata that differ in the colorspace
\* alone aborts in both calls or in neither, and the two outputs differ in byte 14
\* (the colorspace byte) and nowhere else; decode of two streams that differ in that
\* byte alone aborts alike or returns the same pixel bytes and, the colorspace
\* aside, the same metadata, unless the allocator refuses the reservation of one of
\* the calls, which it may do under either colorspace.
AllocatorAborts == {panic, twin[1].panic} \cap {"alloc_abort"}

C18_ColorspaceInert ==
    /\ (pc \in {"decode_twin", "panicked"} /\ twin # None) =>
          /\ panic = twin[1].panic
          /\ Len(bytes) = Len(twin[1].bytes)
          /\ \A i \in 1..Len(bytes) : (bytes[i] # twin[1].bytes[i]) <=> (i = 14)
    /\ (pc = "decoded_twin" /\ AllocatorAborts = {}) =>
          /\ panic = twin[1].panic
          /\ decoded = twin[1].decoded
          /\ (d_metadata = None) <=> (twin[1].metadata = None)
          /\ d_metadata # None =>
                /\ d_metadata[1].width = twin[1].metadata[1].width
                /\ d_metadata[1].height = twin[1].metadata[1].height
                /\ d_metadata[1].channels = twin[1].metadata[1].channels
                /\ d_metadata[1].colorspace # twin[1].metadata[1].colorspace
    /\ (pc = "decoded_twin" /\ AllocatorAborts # {}) =>
          /\ SubSeq(bytes, 5, 12) = SubSeq(twin[1].bytes, 5, 12)
          /\ with_capacity_may_abort(u32_mul(parse_metadata(Body(bytes)).width,
                                             parse_metadata(Body(bytes)).height).value)

\* four pixels encoded under both colorspaces, both outputs decoded
C18_Witness ==
    /\ pc = "decoded_twin"
    /\ Len(pixels) = 16
    /\ panic = "none"
    /\ decoded = pixels
    /\ twin[1].decoded = pixels
    /\ bytes[14] = 1
    /\ twin[1].bytes[14] = 0
    /\ SubSeq(bytes, 15, Len(bytes)) = SubSeq(twin[1].bytes, 15, Len(bytes))
\* the 4-channel output with the alpha byte of every pixel removed
StripAlpha(out) ==
    [i \in 1..(3 * (Len(out) \div 4)) |-> out[4 * ((i - 1) \div 3) + ((i - 1) % 3) + 1]]

\* C20: parse_chunks on one chunk stream with include_alpha = false aborts exactly
\* when it aborts with include_alpha = true; when it does not, it returns the same
\* pixel count, its output is the 4-channel output with every alpha byte removed,
\* and its previous pixel and index are the 4-channel ones of the other call.
C20_ChannelConversion ==
    pc = "parsed_twin" =>
        /\ twin[1].panic = panic
        /\ panic = "none" =>
              /\ twin[1].pixels_seen = pixels_seen
              /\ Len(decoded) = 4 * pixels_seen
              /\ Len(twin[1].decoded) = 3 * pixels_seen
              /\ twin[1].decoded = StripAlpha(decoded)
              /\ twin[1].prev_pixel = prev_pixel
              /\ twin[1].index = d_index

\* an RGBA chunk of alpha 7, then a DIFF: both calls keep alpha 7 in the previous
\* pixel, and only the first writes it
C20_Witness ==
    /\ pc = "parsed_twin"
    /\ panic = "none"
    /\ pixels_seen = 2
    /\ prev_pixel = [r |-> 8, g |-> 18, b |-> 28, a |-> 7]
    /\ twin[1].prev_pixel.a = 7
    /\ decoded = <<10, 20, 30, 7, 8, 18, 28, 7>>
    /\ twin[1].decoded = <<10, 20, 30, 8, 18, 28>>

(***************************************************************************)
(* Properties of the opcode layout (specification Spec).                   *)
(***************************************************************************)
\* bytes after the tag, by opcode, with rgb bytes for the RGB opcode
TableLength(op, rgb) ==
    CASE op = "QoiOpRgb" -> rgb
      [] op = "QoiOpRgba" -> 4
      [] op = "QoiOpLuma" -> 1
      [] OTHER -> 0

\* the opcode a tag byte stands for
TagOpcode(t) ==
    IF t = 254 THEN "QoiOpRgb"
    ELSE IF t = 255 THEN "QoiOpRgba"
    ELSE IF t < 64 THEN "QoiOpIndex"
    ELSE IF t < 128 THEN "QoiOpDiff"
    ELSE IF t < 192 THEN "QoiOpLuma"
    ELSE "QoiOpRun"

\* every opcode the encoder has pushed is its tag and the table's payload
EmitsTable(rgb) ==
    \A i \in 1..Len(chunks) :
        /\ TagOpcode(chunks[i].data[1]) = chunks[i].op
        /\ Len(chunks[i].data) = 1 + TableLength(chunks[i].op, rgb)

\* a step of the decoder's loop takes the tag and the table's payload
ConsumesTable(rgb) ==
    (AtTag /\ pc' = "parse_chunks") => iter' = iter + 1 + TableLength(TagOpcode(NextTag), rgb)

\* C21 as stated, with 2 bytes after the RGB tag.
C21_Original == [](EmitsTable(2)) /\ [][ConsumesTable(2)]_vars

\* C21: what the encoder pushes for an opcode and what a step of the decoder takes
\* for it is the tag followed by 3 bytes for RGB, 4 for RGBA, 1 for LUMA and none
\* for INDEX, DIFF and RUN.
C21_OpcodeLengths == [](EmitsTable(3)) /\ [][ConsumesTable(3)]_vars

\* the decoder has taken the four bytes of the RGB opcode the encoder pushed for
\* the single pixel (10, 20, 30)
C21_Witness ==
    /\ pc = "parse_chunks"
    /\ Len(chunks) = 1
    /\ chunks[1] = Chunk("QoiOpRgb", <<254, 10, 20, 30>>)
    /\ tag = Some(254)
    /\ iter = 14 + 4

(***************************************************************************)
(* Properties of the run counter and the index write in add_chunks         *)
(* (specification SpecRun).                                                *)
(***************************************************************************)
Returned == pc = "run_returned" /\ add_chunks_result = "Ok"

\* C22: for every pixel buffer, add_chunks (increment; at 63 or more push RUN(62)
\* and subtract 62) does not abort and returns exactly the bytes of the encoder
\* that pushes RUN(62) and resets to 0 when its counter reaches 62.
C22_RunRuleEquivalent ==
    /\ panic = "none"
    /\ Returned => bytes = twin[1].reset.bytes

\* 63 repeats of the initial pixel: FD C0 from both
C22_Witness ==
    /\ Returned
    /\ PixelCount = 63
    /\ run_count = 1
    /\ twin[1].reset.run_count = 1
    /\ bytes = <<253, 192>>
    /\ twin[1].reset.bytes = <<253, 192>>

\* between two iterations of the loop, k pixels processed
Processed == pos \div Channels
BetweenPixels == pc = "run_loop"

\* the last pixel processed is the n-th of a block of pixels each equal to its
\* predecessor, and the pixel before the block is not
AtStreak(n) ==
    /\ BetweenPixels
    /\ Processed >= n
    /\ \A j \in (Processed - n + 1)..Processed : Px(j) = Px(j - 1)
    /\ Processed > n => Px(Processed - n) # Px(Processed - n - 1)

LastChunk == chunks[Len(chunks)]
FullRunPushed == chunks # << >> /\ LastChunk = Chunk("QoiOpRun", <<253>>)

\* C23 as stated: after the 62nd consecutive repeat a RUN of 62 has been pushed and
\* the counter is 0.
C23_Original == AtStreak(62) => (FullRunPushed /\ run_count = 0)

\* C23, what does hold: after the 62nd consecutive repeat the counter is 62 and no
\* RUN has been pushed for the block; after the 63rd a RUN of 62 has been pushed
\* and the counter is 1.
C23_FlushAt63 ==
    /\ AtStreak(62) =>
          /\ run_count = 62
          /\ chunks # << >> => LastChunk.op # "QoiOpRun"
    /\ AtStreak(63) => (FullRunPushed /\ run_count = 1)

\* a pixel, then 63 repeats of it: its opcode, then FD, and 1 in the counter
C23_Witness ==
    /\ AtStreak(63)
    /\ Processed = 64
    /\ Len(chunks) = 2
    /\ chunks[1].op # "QoiOpRun"
    /\ chunks[2] = Chunk("QoiOpRun", <<253>>)
    /\ run_count = 1

\* C24 as stated: the run counter is in 0..62 in every state of add_chunks.
C24_Original == run_count \in 0..62

\* C24, what does hold: the run counter is in 0..62 in every state of add_chunks
\* but the one between its increment and the test that follows, where it is in
\* 1..63; the increment does not overflow and 62 is subtracted from 63 only.
C24_CounterRange ==
    /\ panic # "overflow"
    /\ pc # "run_split" => run_count \in 0..62
    /\ pc = "run_split" => run_count \in 1..63
    /\ (pc = "run_write" /\ operation = "QoiOpRun") => run_count \in 1..62

\* the counter back at 1 after the 63rd repeat, the RUN of 62 pushed
C24_Witness ==
    /\ pc = "run_write"
    /\ operation = "QoiOpRun"
    /\ run_count = 1
    /\ FullRunPushed
    /\ Processed = 63

\* the index write of an iteration whose operation is RUN
RunStepWrite == pc = "run_write" /\ operation = "QoiOpRun"
StartsWithInitial == PixelCount >= 1 /\ Px(1) = Px(0)

\* C25 as stated: the index write of a RUN step never changes the index, and the
\* encoder that writes the index on the other steps only has the same index after
\* every pixel and returns the same bytes.
C25_Original ==
    /\ [][RunStepWrite => index' = index]_vars
    /\ [](BetweenPixels => twin[1].skip.index = index)
    /\ [](Returned => twin[1].skip.bytes = bytes)

\* C25, what does hold: the index write of a RUN step leaves the index as it is,
\* but for the first pixel of a buffer that starts with (0,0,0,255), which fills
\* the empty slot 53. The encoder that writes the index on the other steps only
\* has, after every pixel, the same index in every slot but 53, where it holds the
\* same or, the buffer starting with (0,0,0,255), nothing; for a buffer that does
\* not start with (0,0,0,255) it has the same index and returns the same bytes.
C25_RunWriteIdempotent ==
    /\ [][RunStepWrite =>
            \/ index' = index
            \/ /\ Processed = 1
               /\ StartsWithInitial
               /\ index = EmptyIndex
               /\ index' = index_set(EmptyIndex, 53, InitialPixel)]_vars
    /\ [](BetweenPixels =>
            /\ \A i \in IndexSlots \ {53} :
                  index_get(twin[1].skip.index, i) = index_get(index, i)
            /\ \/ index_get(twin[1].skip.index, 53) = index_get(index, 53)
               \/ /\ StartsWithInitial
                  /\ index_get(twin[1].skip.index, 53) = None
                  /\ index_get(index, 53) = Some(InitialPixel))
    /\ []((BetweenPixels /\ ~StartsWithInitial) => twin[1].skip.index = index)
    /\ []((Returned /\ ~StartsWithInitial) => twin[1].skip.bytes = bytes)

\* (10,20,30,255) twice, then another pixel: the second is a RUN step, the indexes
\* are equal and so are the bytes returned
C25_Witness ==
    /\ Returned
    /\ PixelCount = 3
    /\ Px(1) = <<10, 20, 30, 255>>
    /\ Px(2) = Px(1)
    /\ Px(3) = <<0, 0, 0, 255>>
    /\ chunks[2] = Chunk("QoiOpRun", <<192>>)
    /\ DOMAIN index = {9, 53}
    /\ twin[1].skip.index = index
    /\ twin[1].skip.bytes = bytes

\* the pixels the opcodes pushed so far stand for
PixelsEmitted ==
    RunTotal(chunks) + Cardinality({ i \in 1..Len(chunks) : chunks[i].op # "QoiOpRun" })
\* the step that finds the operation of the next pixel (and flushes), and the
\* step that pushes an opcode that is not a RUN
Selecting == pc = "run_loop" /\ pc' = "run_match"
Pushing == pc = "run_match" /\ operation # "QoiOpRun" /\ pc' = "run_write"

\* C26: when an operation that is not RUN is selected with the run counter above 0,
\* the RUN byte of the pending count is appended and the counter reset before the
\* bytes of that opcode are appended, and in no other case does the selection
\* append anything; between two pixels the opcodes pushed and the pending count
\* stand for the pixels processed; when add_chunks returns Ok the opcodes pushed
\* stand for all the pixels, the last being the RUN of the count left.
C26_FlushOrder ==
    /\ [][Selecting =>
            IF operation' # "QoiOpRun" /\ run_count > 0
            THEN bytes' = bytes \o <<192 + run_count - 1>> /\ run_count' = 0
            ELSE bytes' = bytes /\ run_count' = run_count]_vars
    /\ [][Pushing =>
            /\ run_count = 0
            /\ run_count' = 0
            /\ Len(bytes') > Len(bytes)
            /\ SubSeq(bytes', 1, Len(bytes)) = bytes
            /\ TagOpcode(bytes'[Len(bytes) + 1]) = operation]_vars
    /\ [](BetweenPixels => PixelsEmitted + run_count = Processed)
    /\ [](Returned =>
            /\ PixelsEmitted = PixelCount
            /\ bytes = Flatten(chunks)
            /\ run_count > 0 => LastChunk = Chunk("QoiOpRun", <<192 + run_count - 1>>))

\* (0,0,0,255), (10,20,30,255) twice: a RUN of 1 flushed before the RGB opcode, a
\* RUN of 1 flushed after the last pixel
C26_Witness ==
    /\ Returned
    /\ PixelCount = 3
    /\ bytes = <<192, 254, 10, 20, 30, 192>>
    /\ run_count = 1

(***************************************************************************)
(* Properties of the DIFF and LUMA opcodes (specification SpecDelta).      *)
(***************************************************************************)
DeltaPushed(op) == pc \in {"delta_pushed", "delta_written"} /\ operation = op
DeltaWritten(op) == pc = "delta_written" /\ operation = op
\* the decoder's step has given back the current pixel, alpha included
Reconstructed ==
    /\ prev_pixel = unwrap(pixel)
    /\ prev_pixel.a = previous_pixel.a
    /\ pixels_seen = 1
    /\ iter = Len(bytes)
    /\ decoded = <<unwrap(pixel).r, unwrap(pixel).g, unwrap(pixel).b>>
                 \o (IF metadata.channels = "RGBA" THEN <<previous_pixel.a>> ELSE << >>)

\* C27: when DIFF is selected, no assertion of create_diff fails, the byte pushed is
\* 01 followed by dr + 2, dg + 2, db + 2 in two bits each (the differences wrapped
\* to 8 bits, each in -2..1), and the decoder's step on that byte and the same
\* previous pixel yields the current pixel with the alpha of the previous one.
C27_DiffRoundTrip ==
    /\ operation = "QoiOpDiff" => panic = "none"
    /\ DeltaPushed("QoiOpDiff") =>
          /\ InDiffRange
          /\ Len(bytes) = 1
          /\ bytes[1] \div 64 = 1
          /\ (bytes[1] \div 16) % 4 = DeltaR + 2
          /\ (bytes[1] \div 4) % 4 = DeltaG + 2
          /\ bytes[1] % 4 = DeltaB + 2
    /\ DeltaWritten("QoiOpDiff") => (d_operation = "QoiOpDiff" /\ Reconstructed)

\* previous (0, 255, 0, 40), current (255, 0, 1, 40): dr = -1, dg = 1, db = 1 across
\* the wrap, the byte 01 01 11 11
C27_Witness ==
    /\ DeltaWritten("QoiOpDiff")
    /\ previous_pixel = Pixel(0, 255, 0, 40)
    /\ unwrap(pixel) = Pixel(255, 0, 1, 40)
    /\ bytes = <<95>>
    /\ prev_pixel = Pixel(255, 0, 1, 40)

\* C28: when LUMA is selected, no assertion of create_diff_luma fails, the two bytes
\* pushed are 10 followed by dg + 32 in six bits, then dr - dg + 8 and db - dg + 8 in
\* four bits each, and the decoder's step on those bytes and the same previous pixel
\* yields the current pixel with the alpha of the previous one.
C28_LumaRoundTrip ==
    /\ operation = "QoiOpLuma" => panic = "none"
    /\ DeltaPushed("QoiOpLuma") =>
          /\ InLumaRange
          /\ Len(bytes) = 2
          /\ bytes[1] \div 64 = 2
          /\ bytes[1] % 64 = DeltaG + 32
          /\ bytes[2] \div 16 = Modular(DeltaR - DeltaG) + 8
          /\ bytes[2] % 16 = Modular(DeltaB - DeltaG) + 8
    /\ DeltaWritten("QoiOpLuma") => (d_operation = "QoiOpLuma" /\ Reconstructed)

\* previous (0, 255, 0, 40), current (216, 223, 231, 40): dg = -32, dr - dg = -8,
\* db - dg = 7 across the wrap, the bytes 10 000000 and 0000 1111
C28_Witness ==
    /\ DeltaWritten("QoiOpLuma")
    /\ previous_pixel = Pixel(0, 255, 0, 40)
    /\ unwrap(pixel) = Pixel(216, 223, 231, 40)
    /\ bytes = <<128, 15>>
    /\ prev_pixel = Pixel(216, 223, 231, 40)

(***************************************************************************)
(* Properties of the decoder on RUN and INDEX tags (specification          *)
(* SpecChunk).                                                             *)
(***************************************************************************)
RunLength(t) == (t % 64) + 1

\* C29: a step of the decoder on a tag in 0xC0..0xFD appends (tag & 0x3F) + 1 copies
\* of the previous pixel, adds that number to the pixel count, keeps the previous
\* pixel, takes the tag alone from the stream, and the number is in 1..62.
C29_RunCopies ==
    [][ (AtTag /\ NextTag \in 192..253) =>
            /\ pc' = "parse_chunks"
            /\ panic' = "none"
            /\ RunLength(NextTag) \in 1..62
            /\ Len(decoded') = Len(decoded) + RunLength(NextTag) * Len(Emitted(prev_pixel))
            /\ SubSeq(decoded', 1, Len(decoded)) = decoded
            /\ \A k \in 0..(RunLength(NextTag) - 1) :
                  SubSeq(decoded', Len(decoded) + k * Len(Emitted(prev_pixel)) + 1,
                         Len(decoded) + (k + 1) * Len(Emitted(prev_pixel)))
                     = Emitted(prev_pixel)
            /\ pixels_seen' = pixels_seen + RunLength(NextTag)
            /\ prev_pixel' = prev_pixel
            /\ iter' = iter + 1 ]_vars

\* the pixel (10,20,30,7), then the tag 0xFD: 62 copies, 63 pixels in all
C29_Witness ==
    /\ pc = "decoded"
    /\ tag = Some(253)
    /\ pixels_seen = 63
    /\ Len(decoded) = 63 * 4
    /\ \A k \in 0..62 : SubSeq(decoded, 4 * k + 1, 4 * k + 4) = <<10, 20, 30, 7>>
    /\ prev_pixel = Pixel(10, 20, 30, 7)

\* the first iteration of the loop of parse_chunks
AtFirstTag == AtTag /\ iter = 14

\* C30: before the first chunk the previous pixel is (0,0,0,255) and the index holds
\* (0,0,0,255) in slot 53, (0,0,0,0) in slot 0 and nothing else, these being the
\* slots of the two pixels; an INDEX opcode as the first chunk decodes to (0,0,0,255)
\* for slot 53, to (0,0,0,0) for slot 0, and aborts on the empty slot for every
\* other slot.
C30_FreshDecoder ==
    /\ [](AtFirstTag =>
            /\ prev_pixel = Pixel(0, 0, 0, 255)
            /\ pixels_seen = 0
            /\ decoded = << >>
            /\ DOMAIN d_index = {0, 53}
            /\ d_index[53] = Pixel(0, 0, 0, 255)
            /\ d_index[0] = Pixel(0, 0, 0, 0)
            /\ calculate_index(Pixel(0, 0, 0, 255)) = 53
            /\ calculate_index(Pixel(0, 0, 0, 0)) = 0)
    /\ [][ (AtFirstTag /\ NextTag \in 0..63) =>
              IF NextTag = 53
              THEN /\ pc' = "parse_chunks"
                   /\ prev_pixel' = Pixel(0, 0, 0, 255)
                   /\ decoded' = Emitted(Pixel(0, 0, 0, 255))
                   /\ pixels_seen' = 1
              ELSE IF NextTag = 0
              THEN /\ pc' = "parse_chunks"
                   /\ prev_pixel' = Pixel(0, 0, 0, 0)
                   /\ decoded' = Emitted(Pixel(0, 0, 0, 0))
                   /\ pixels_seen' = 1
              ELSE /\ pc' = "panicked"
                   /\ panic' = "index_unwrap"
                   /\ decoded' = << >> ]_vars

\* the stream whose only chunk is INDEX 0, with alpha in the output
C30_Witness ==
    /\ pc = "decoded"
    /\ Len(ChunkBody) = 15
    /\ tag = Some(0)
    /\ decoded = <<0, 0, 0, 0>>
    /\ prev_pixel = Pixel(0, 0, 0, 0)
    /\ DOMAIN d_index = {0, 53}

(***************************************************************************)
(* Properties of the decoder's registers and of its loop on crafted        *)
(* streams (specifications SpecDec and SpecLoop).                          *)
(***************************************************************************)
\* the tags of RGB, DIFF, LUMA and RUN
AlphaKept(t) == t = 254 \/ t \in 64..253
\* the step is a whole iteration of the loop of parse_chunks
Iterated == AtTag /\ pc' = "parse_chunks"
\* the alpha values the step appended to the output (alpha in the output)
NewAlphas ==
    { decoded'[i] : i \in { j \in (Len(decoded) + 1)..Len(decoded') :
                              (j - Len(decoded)) % 4 = 0 } }

\* C31: in the decoder the previous pixel's alpha is 255 before the first opcode;
\* a step on an RGB, DIFF, LUMA or RUN tag leaves it unchanged and every pixel the
\* step writes carries it; a step that changes it is on an RGBA or INDEX tag.
C31_AlphaInherited ==
    /\ [](AtFirstTag => prev_pixel.a = 255)
    /\ [][ (Iterated /\ AlphaKept(NextTag)) =>
              /\ prev_pixel'.a = prev_pixel.a
              /\ bytes[13] = 4 => NewAlphas = {prev_pixel.a} ]_vars
    /\ [][ (Iterated /\ prev_pixel'.a # prev_pixel.a) =>
              (NextTag = 255 \/ NextTag \in 0..63) ]_vars

\* RGBA (10,20,30,7), then RGB 10 20 30: the second pixel has alpha 7
C31_Witness ==
    /\ pc = "decoded"
    /\ d_operation = "QoiOpRgb"
    /\ Len(ChunkBody) = 14 + 5 + 4
    /\ prev_pixel = Pixel(10, 20, 30, 7)
    /\ decoded = <<10, 20, 30, 7, 10, 20, 30, 7>>

\* parse_chunks has returned its count to decode, or the program has aborted
Halted == pc = "decoded" \/ pc = "panicked"
\* the step is the return of parse_chunks: the loop has ended without an abort
LoopEnded ==
    /\ pc = "parse_chunks"
    /\ pc' # "parse_chunks"
    /\ panic' \in {"none", "assert_total_pixels"}

\* C32: within parse_chunks the iterator never passes the end of the chunk body;
\* every iteration takes the tag and the payload of its opcode from it, at least
\* one byte; the loop ends only with the abort of the program or, the iterator
\* being exhausted, with the pixel count; and parse_chunks always halts.
C32_Terminates ==
    /\ [](pc = "parse_chunks" => iter \in 14..Len(ChunkBody))
    /\ [][ Iterated => (iter' = iter + 1 + Needed(NextTag) /\ iter' > iter) ]_vars
    /\ [][ LoopEnded => (iter = Len(ChunkBody) /\ iter' = iter
                         /\ pixels_seen' = pixels_seen) ]_vars
    /\ [][ (pc = "parse_chunks" /\ pc' # "parse_chunks") => Halted' ]_vars
    /\ (pc = "parse_chunks" ~> Halted)

\* LUMA and RGB chunks read to the last byte of the body: 2 + 4 bytes, 2 pixels
C32_Witness ==
    /\ pc = "decoded"
    /\ pixels_seen = 2
    /\ iter = Len(ChunkBody)
    /\ iter = 14 + 2 + 4
    /\ d_operation = "QoiOpRgb"
    /\ prev_pixel = Pixel(10, 20, 30, 255)
    /\ decoded = <<216, 224, 231, 255, 10, 20, 30, 255>>

(***************************************************************************)
(* Properties of the two indexes while the encoder's output is decoded     *)
(* (specification Spec).                                                   *)
(***************************************************************************)
\* the encoder's index when it chose the opcode the decoder is at
EncIndexHere == EncIndexAfter(pixels_seen)
\* the pixel the opcode the decoder is about to read was chosen for
NextPixel == enc_log[pixels_seen + 1].val

\* C33: between two opcodes of the encoder's output, before the first one included,
\* every slot the encoder's index held at that point holds the same pixel in the
\* decoder's index; a slot where the two differ is 0 or 53, empty in the encoder
\* and seeded in the decoder; the slot of an INDEX opcode about to be read holds, in
\* both, the pixel the opcode was chosen for; and no INDEX opcode aborts the decoder.
C33_IndexAgreement ==
    /\ pc = "parse_chunks" =>
          /\ pixels_seen <= Len(enc_log)
          /\ \A s \in DOMAIN EncIndexHere :
                s \in DOMAIN d_index /\ d_index[s] = EncIndexHere[s]
          /\ \A s \in IndexSlots :
                index_get(d_index, s) # index_get(EncIndexHere, s) =>
                    /\ s \in {0, 53}
                    /\ s \notin DOMAIN EncIndexHere
                    /\ d_index[s] = SeededIndex[s]
    /\ (AtTag /\ NextTag < 64) =>
          /\ index_get(EncIndexHere, NextTag) = Some(NextPixel)
          /\ index_get(d_index, NextTag) = Some(NextPixel)
    /\ panic # "index_unwrap"

\* (10,20,30), (100,50,200), (10,20,30) without alpha: the decoder is at the INDEX
\* opcode of slot 9, which both hold, while slots 0 and 53 are empty in the encoder
\* and seeded in the decoder
C33_Witness ==
    /\ AtTag
    /\ NextTag = 9
    /\ pixels_seen = 2
    /\ NextPixel = Pixel(10, 20, 30, 255)
    /\ DOMAIN EncIndexHere = {9, 19}
    /\ EncIndexHere[9] = NextPixel
    /\ DOMAIN d_index = {0, 9, 19, 53}
    /\ d_index[9] = NextPixel

(***************************************************************************)
(* Properties of the decoder's output buffer (specification SpecDec).      *)
(***************************************************************************)
\* the values decode writes for a pixel
OutChannels == IF alpha_included(unwrap(d_metadata)) THEN 4 ELSE 3

\* C34: between two opcodes of parse_chunks the output holds pixels_seen pixels of
\* 3 values, or of 4 when the header's channels are RGBA; when decode returns what
\* parse_chunks wrote, the count parse_chunks returned is the output's length
\* divided by that number, and it is width x height.
C34_OutputLength ==
    /\ pc = "parse_chunks" =>
          /\ OutChannels = (IF unwrap(d_metadata).channels = "RGBA" THEN 4 ELSE 3)
          /\ Len(decoded) = pixels_seen * OutChannels
    /\ (pc = "decoded" /\ total_pixels # u32_from(0)) =>
          /\ Len(decoded) % OutChannels = 0
          /\ pixels_seen = Len(decoded) \div OutChannels
          /\ total_pixels = u32_from(pixels_seen)

\* a 3-channel header, one RGBA chunk, then a RUN of 2: 3 pixels, 9 values
C34_Witness ==
    /\ pc = "parse_chunks"
    /\ unwrap(d_metadata).channels = "RGB"
    /\ tag = Some(193)
    /\ d_operation = "QoiOpRun"
    /\ pixels_seen = 3
    /\ decoded = <<10, 20, 30, 10, 20, 30, 10, 20, 30>>
    /\ prev_pixel.a = 7

(***************************************************************************)
(* Properties of the encoder on 3-channel buffers (specification Spec).    *)
(***************************************************************************)
\* add_chunks is in its loop or has returned Ok
Encoding == pc \in {"add_chunks_loop", "add_end_marker", "decode", "parse_metadata"}
\* the bytes of the output after the header, the end marker excluded
ChunkBytes ==
    SubSeq(bytes, 15, IF pc \in {"decode", "parse_metadata"} THEN Len(bytes) - 8
                      ELSE Len(bytes))

\* C35: when the metadata's channels are RGB, every pixel add_chunks has read has
\* alpha 255; no opcode pushed is RGBA and no opcode's tag is 0xFF; an opcode has at
\* most 4 bytes; and the bytes after the header, which are the opcodes pushed, are
\* at most 4 for each pixel read.
C35_NoRgbaWithoutAlpha ==
    (Encoding /\ ~alpha_included(metadata)) =>
        /\ \A k \in 1..Len(enc_log) : enc_log[k].val.a = 255
        /\ previous_pixel.a = 255
        /\ \A i \in 1..Len(chunks) :
              /\ chunks[i].op # "QoiOpRgba"
              /\ chunks[i].data[1] # 255
              /\ Len(chunks[i].data) <= 4
        /\ ChunkBytes = Flatten(chunks)
        /\ pos = 3 * Len(enc_log)
        /\ Len(ChunkBytes) <= 4 * Len(enc_log)

\* (10,20,30), (100,50,200), (0,0,0) without alpha: three RGB opcodes, 12 bytes
C35_Witness ==
    /\ pc = "add_end_marker"
    /\ ~alpha_included(metadata)
    /\ Len(enc_log) = 3
    /\ \A i \in 1..3 : chunks[i].op = "QoiOpRgb"
    /\ Len(ChunkBytes) = 12
    /\ ChunkBytes[5] = 254
    /\ previous_pixel = Pixel(0, 0, 0, 255)

(***************************************************************************)
(* Properties of decode's pixel total (specification SpecDec).  The        *)
(* product of the header's width and height is taken here in 16-bit        *)
(* halves: width = w1 * 2^16 + w0, height = h1 * 2^16 + h0.                *)
(***************************************************************************)
\* the product of two 16-bit numbers as <<high half, low half>>, y taken in bytes
Mul16(x, y) ==
    LET part == x * (y % U8) + (((x * (y \div U8)) % U8) * U8)
    IN << (part \div U16) + ((x * (y \div U8)) \div U8), part % U16 >>
\* the coefficient of 2^16 in width x height, with the carry of w0 * h0
MiddlePart(md) ==
    Mul16(md.width[1], md.height[2])[2] + Mul16(md.width[2], md.height[1])[2]
        + Mul16(md.width[2], md.height[2])[1]
\* width x height is below 2^32
FitsU32(md) ==
    /\ md.width[1] = 0 \/ md.height[1] = 0
    /\ Mul16(md.width[1], md.height[2])[1] = 0
    /\ Mul16(md.width[2], md.height[1])[1] = 0
    /\ MiddlePart(md) < U16
\* width x height modulo 2^32
Low32(md) == << MiddlePart(md) % U16, Mul16(md.width[2], md.height[2])[2] >>
\* decode has computed total_pixels
TotalTaken == pc \in {"parse_chunks", "decoded"}

\* C36 as stated: the multiplication never aborts, and total_pixels is the product
\* width x height, which therefore is below 2^32.
C36_Original ==
    /\ panic # "mul_overflow"
    /\ TotalTaken =>
          /\ FitsU32(unwrap(d_metadata))
          /\ total_pixels = Low32(unwrap(d_metadata))

\* C36, what does hold of the pixel total: the multiplication aborts only when
\* width x height is 2^32 or more; total_pixels is width x height modulo 2^32, so it
\* is the product when that is below 2^32; and when it is not, decode goes on with
\* the wrapped total unless the multiplication aborted.
C36_ProductModulo ==
    /\ panic = "mul_overflow" => ~FitsU32(unwrap(d_metadata))
    /\ TotalTaken => total_pixels = Low32(unwrap(d_metadata))
    /\ (pc = "decoded" /\ ~FitsU32(unwrap(d_metadata))) =>
          /\ total_pixels # u32_from(0) => total_pixels = u32_from(pixels_seen)
          /\ total_pixels = u32_from(0) => decoded = << >>

\* width 2^31 + 1 and height 2, a body of two pixels: the total wraps to 2 and
\* decode returns the two pixels
C36_Witness ==
    /\ pc = "decoded"
    /\ unwrap(d_metadata).width = <<32768, 1>>
    /\ unwrap(d_metadata).height = <<0, 2>>
    /\ total_pixels = <<0, 2>>
    /\ pixels_seen = 2
    /\ Len(decoded) = 2 * OutChannels

\* the pixel buffer given to encode has width x height x channels values
ValidInput ==
    /\ FitsU32(metadata)
    /\ Len(pixels) % Channels = 0
    /\ Low32(metadata) = u32_from(Len(pixels) \div Channels)
\* the image has 2^32 pixels or more: its buffer is not written out
HugeInput == ~FitsU32(metadata)
\* decode has returned a buffer of width x height x channels values
ReturnedWhole ==
    /\ FitsU32(unwrap(d_metadata))
    /\ Len(decoded) % OutChannels = 0
    /\ Low32(unwrap(d_metadata)) = u32_from(Len(decoded) \div OutChannels)

\* C1 as stated: for every metadata record and buffer of width x height x channels
\* values neither encode nor decode aborts, and decode returns the metadata and
\* the buffer: the buffer given to encode where that is written out, and a buffer
\* of width x height x channels values in every case.
C1_Original ==
    (ValidInput \/ HugeInput) =>
        /\ panic = "none"
        /\ pc = "decoded" =>
              /\ d_metadata = Some(metadata)
              /\ ReturnedWhole
              /\ ValidInput => decoded = pixels

\* C1, what does hold of the round trip: for a buffer of width x height x channels
\* values that is written out (up to 125 pixels), neither encode nor decode
\* aborts, and decode returns the metadata and the pixel buffer given to encode;
\* for an image whose width x height is a multiple of 2^32, decode aborts in the
\* multiplication or returns the metadata and no pixel at all.
C1_RoundTrip ==
    /\ ValidInput =>
          /\ panic = "none"
          /\ pc = "decoded" => (d_metadata = Some(metadata) /\ decoded = pixels)
    /\ (HugeInput /\ pc \in {"decoded", "panicked"}) =>
          /\ Low32(metadata) = u32_from(0)
          /\ \/ pc = "panicked" /\ panic = "mul_overflow" /\ decoded = << >>
             \/ /\ pc = "decoded"
                /\ panic = "none"
                /\ d_metadata = Some(metadata)
                /\ total_pixels = u32_from(0)
                /\ decoded = << >>

C1_Witness ==
    /\ pc = "decoded"
    /\ ValidInput
    /\ decoded = pixels
    /\ Len(pixels) > 0
    /\ OpsOf("QoiOpIndex") # {}
    /\ OpsOf("QoiOpLuma") # {}

(***************************************************************************)
(* Properties of the encoder's index and previous pixel (specification     *)
(* SpecRun).                                                               *)
(***************************************************************************)
\* previous_pixel as the values of the buffer it was read from
PreviousValues ==
    <<previous_pixel.r, previous_pixel.g, previous_pixel.b, previous_pixel.a>>
\* the slot of previous_pixel holds previous_pixel
PreviousIndexed ==
    index_get(index, calculate_index(previous_pixel)) = Some(previous_pixel)

\* C37: once add_chunks has processed a pixel, be it counted into a run or not,
\* previous_pixel is that pixel and the index slot calculate_index(previous_pixel)
\* holds it; and a pixel equal to previous_pixel, which that slot therefore holds,
\* is given the operation RUN, not INDEX.
C37_PreviousIndexed ==
    /\ (pc \in {"run_loop", "run_returned"} /\ Processed >= 1) =>
          /\ previous_pixel = unwrap(pixel)
          /\ PreviousValues = Px(Processed)
          /\ PreviousIndexed
    /\ (pc = "run_match" /\ Processed >= 2) =>
          /\ PreviousValues = Px(Processed - 1)
          /\ PreviousIndexed
          /\ unwrap(pixel) = previous_pixel => operation = "QoiOpRun"

\* the first pixel is (0,0,0,255), counted into a run: slot 53 holds it, and nothing
\* has been pushed
C37_Witness ==
    /\ pc = "run_loop"
    /\ Processed = 1
    /\ operation = "QoiOpRun"
    /\ run_count = 1
    /\ bytes = << >>
    /\ previous_pixel = Pixel(0, 0, 0, 255)
    /\ DOMAIN index = {53}
    /\ PreviousIndexed

====
